---------------------------- MODULE Spec2Model ----------------------------
(***************************************************************************)
(* Verification model of the i-flow repository.                            *)
(*                                                                         *)
(*  - flow/integration/integrator.py : class Integrator (train_one_step,   *)
(*    sample, integrate, acceptance, save, load)       -> specification    *)
(*    Spec                                                                 *)
(*  - spline/splines/quadratic.py : quadratic_spline   -> specification    *)
(*    SpecSpline                                                           *)
(*                                                                         *)
(* Floating point numbers are modelled as extended rationals <<n, d>>:     *)
(* d > 0 is the rational n/d in lowest terms, <<1,0>> is +Inf, <<-1,0>> is  *)
(* -Inf and <<0,0>> is NaN, with the IEEE rules for the special values.     *)
(* Rounding is not modelled: finite arithmetic is exact.                   *)
(***************************************************************************)
EXTENDS Integers, Sequences, FiniteSets, TLC

VARIABLES
    \* ---- flow/integration/integrator.py: one Integrator and its collaborators
    func,            \* self._func: the target function, a table point -> value
    base_dist,       \* the base distribution of self.dist (Uniform low/high)
    loss_func,       \* self.loss_func
    global_step,     \* self.global_step
    theta,           \* transform_net weights of each bijector of self.dist
    opt_iterations,  \* self.optimizer's own state: number of applied steps
    files,           \* the checkpoint directory ./models: file name -> weights
    saved_theta,     \* history: theta at the time of the last save()
    last,            \* the last completed call: its arguments, locals, result
    \* ---- spline/splines/quadratic.py: the parameters and the last two calls
    knots,           \* unnormalized widths/heights and the configuration
    call,            \* the last quadratic_spline call
    prev,            \* the call before it
    \* ---- the driver scripts: the position of main and its bound locals
    drv,
    \* ---- a second Integrator, with its own flow, in the same process
    other,
    \* ---- Integrator/integrator.py: BijectorFactory and its last create
    factory,
    \* ---- the masks a driver built, and the sizes it built them for
    masks,
    \* ---- the last ewma call: its implementation, arguments and result
    ewma_call,
    \* ---- Integrator/integrator.py: the session-based Integrator and the
    \* position of its optimize call
    session,
    \* ---- integration/sherpa2.py: the last call on the process eetojjj
    eetojjj

intVars == <<func, base_dist, loss_func, global_step, theta, opt_iterations,
             files, saved_theta, last>>
splVars == <<knots, call, prev>>
auxVars == <<drv, other, factory, masks, ewma_call, session, eetojjj>>
vars == <<func, base_dist, loss_func, global_step, theta, opt_iterations,
          files, saved_theta, last, knots, call, prev, drv, other, factory,
          masks, ewma_call, session, eetojjj>>

---------------------------------------------------------------------------
(* Bounds of the model *)

\* largest batch size nsamples a call is made with
MaxSamples == 2
\* largest number of train_one_step calls in a run
MaxSteps == 2
\* number of coupling layers (bijectors) of the flow
NumLayers == 2

---------------------------------------------------------------------------
(* Extended rational arithmetic: Python / TensorFlow float operators *)

Abs(i) == IF i < 0 THEN -i ELSE i

Sgn(i) == IF i < 0 THEN -1 ELSE IF i > 0 THEN 1 ELSE 0

RECURSIVE GCD(_, _)
GCD(a, b) == IF b = 0 THEN a ELSE GCD(b, a % b)

\* n/d in lowest terms with a positive denominator (d # 0)
Norm(n, d) ==
    LET g == GCD(Abs(n), Abs(d))
        s == IF d < 0 THEN -1 ELSE 1
    IN  <<(s * n) \div g, (s * d) \div g>>

NaN == <<0, 0>>
PInf == <<1, 0>>
NInf == <<-1, 0>>
Zero == <<0, 1>>
One == <<1, 1>>

Int2V(i) == <<i, 1>>

IsNaN(v) == v = NaN

IsFinite(v) == v[2] # 0

VSign(v) == Sgn(v[1])

VNeg(a) == <<-a[1], a[2]>>

\* a + b
VAdd(a, b) ==
    IF IsNaN(a) \/ IsNaN(b) THEN NaN
    ELSE IF ~IsFinite(a) THEN (IF ~IsFinite(b) /\ b # a THEN NaN ELSE a)
    ELSE IF ~IsFinite(b) THEN b
    ELSE Norm(a[1] * (b[2] \div GCD(a[2], b[2]))
                + b[1] * (a[2] \div GCD(a[2], b[2])),
              a[2] * (b[2] \div GCD(a[2], b[2])))

\* a - b
VSub(a, b) == VAdd(a, VNeg(b))

\* a * b
VMul(a, b) ==
    IF IsNaN(a) \/ IsNaN(b) THEN NaN
    ELSE IF ~IsFinite(a) \/ ~IsFinite(b)
         THEN (IF VSign(a) * VSign(b) = 0 THEN NaN ELSE <<VSign(a) * VSign(b), 0>>)
    ELSE <<(a[1] \div GCD(Abs(a[1]), b[2])) * (b[1] \div GCD(Abs(b[1]), a[2])),
           (a[2] \div GCD(Abs(b[1]), a[2])) * (b[2] \div GCD(Abs(a[1]), b[2]))>>

\* a / b (a zero divisor is +0.0)
VDiv(a, b) ==
    IF IsNaN(a) \/ IsNaN(b) THEN NaN
    ELSE IF ~IsFinite(a) /\ ~IsFinite(b) THEN NaN
    ELSE IF ~IsFinite(b) THEN Zero
    ELSE IF ~IsFinite(a) THEN <<VSign(a) * (IF VSign(b) < 0 THEN -1 ELSE 1), 0>>
    ELSE IF b[1] = 0 THEN (IF a[1] = 0 THEN NaN ELSE <<VSign(a), 0>>)
    ELSE <<Sgn(b[1]) * (a[1] \div GCD(Abs(a[1]), Abs(b[1])))
                       * (b[2] \div GCD(a[2], b[2])),
           (a[2] \div GCD(a[2], b[2]))
             * (Abs(b[1]) \div GCD(Abs(a[1]), Abs(b[1])))>>

\* a < b (every comparison with NaN is false)
VLess(a, b) ==
    IF IsNaN(a) \/ IsNaN(b) THEN FALSE
    ELSE IF ~IsFinite(a) THEN a = NInf /\ b # NInf
    ELSE IF ~IsFinite(b) THEN b = PInf
    ELSE a[1] * (b[2] \div GCD(a[2], b[2])) < b[1] * (a[2] \div GCD(a[2], b[2]))

VLeq(a, b) == VLess(a, b) \/ (~IsNaN(a) /\ a = b)

\* elementwise a / b, a * b over two batches of one length
RECURSIVE MapDiv(_, _)
MapDiv(a, b) ==
    IF a = <<>> THEN <<>>
    ELSE <<VDiv(Head(a), Head(b))>> \o MapDiv(Tail(a), Tail(b))

RECURSIVE MapMul(_, _)
MapMul(a, b) ==
    IF a = <<>> THEN <<>>
    ELSE <<VMul(Head(a), Head(b))>> \o MapMul(Tail(a), Tail(b))

\* a scalar broadcast to a batch of length n
RECURSIVE Broadcast(_, _)
Broadcast(v, n) == IF n = 0 THEN <<>> ELSE <<v>> \o Broadcast(v, n - 1)

\* elementwise a - b over two batches of one length
RECURSIVE MapSub(_, _)
MapSub(a, b) ==
    IF a = <<>> THEN <<>>
    ELSE <<VSub(Head(a), Head(b))>> \o MapSub(Tail(a), Tail(b))

\* table[x] for every x of a batch (a function applied to a batch of points)
RECURSIVE Gather(_, _)
Gather(table, s) ==
    IF s = <<>> THEN <<>> ELSE <<table[Head(s)]>> \o Gather(table, Tail(s))

\* tf.reduce_sum over a batch
RECURSIVE ReduceSum(_)
ReduceSum(s) == IF s = <<>> THEN Zero ELSE VAdd(Head(s), ReduceSum(Tail(s)))

\* tf.reduce_mean over a batch
ReduceMean(s) == VDiv(ReduceSum(s), Int2V(Len(s)))

\* tf.nn.moments(x, axes=[0]): mean and mean squared difference from the mean
MomentsAbout(x, m) ==
    [mean |-> m,
     var |-> ReduceMean(MapMul(MapSub(x, Broadcast(m, Len(x))),
                               MapSub(x, Broadcast(m, Len(x)))))]

Moments(x) == MomentsAbout(x, ReduceMean(x))

\* tf.sqrt kept symbolic: the radicand under a tag (square roots of the
\* statistics are irrational in general)
TfSqrt(v) == <<"sqrt", v>>

\* whether tf.math.log(v) is a finite number
LogIsFinite(v) == IsFinite(v) /\ v[1] > 0

---------------------------------------------------------------------------
(* spline/splines/quadratic.py: quadratic_spline                            *)
(*                                                                         *)
(* A raw logit u is kept as <<"log", k>>, the logarithm of the rational k, *)
(* so that tf.math.exp and tf.nn.softmax are exact. A logarithm is kept    *)
(* the same way: log(v) is <<"log", v>>, a sum of logarithms is the        *)
(* logarithm of the product, a negated logarithm that of the reciprocal.   *)

\* number of bins: unnormalized_widths.shape[-1]
NumBins == 2
\* the inputs of the fresh calls are left + (right - left) * k / GridSize
GridSize == 4

TfLog(v) == <<"log", v>>

TfExp(u) == u[2]

LogAdd(l, m) == <<"log", VMul(l[2], m[2])>>

LogNeg(l) == <<"log", VDiv(One, l[2])>>

LogSub(l, m) == LogAdd(l, LogNeg(m))

RECURSIVE MapExp(_)
MapExp(u) == IF u = <<>> THEN <<>> ELSE <<TfExp(Head(u))>> \o MapExp(Tail(u))

RECURSIVE MapAdd(_, _)
MapAdd(a, b) ==
    IF a = <<>> THEN <<>>
    ELSE <<VAdd(Head(a), Head(b))>> \o MapAdd(Tail(a), Tail(b))

\* tf.math.cumsum
RECURSIVE CumsumFrom(_, _)
CumsumFrom(acc, s) ==
    IF s = <<>> THEN <<>>
    ELSE <<VAdd(acc, Head(s))>> \o CumsumFrom(VAdd(acc, Head(s)), Tail(s))

Cumsum(s) == CumsumFrom(Zero, s)

\* the largest i with i * i <= n, searched between lo and hi
RECURSIVE ISqrtBetween(_, _, _)
ISqrtBetween(n, lo, hi) ==
    IF lo >= hi THEN lo
    ELSE LET mid == (lo + hi + 1) \div 2
         IN  IF mid * mid <= n THEN ISqrtBetween(n, mid, hi)
             ELSE ISqrtBetween(n, lo, mid - 1)

ISqrt(n) == ISqrtBetween(n, 0, IF n < 46340 THEN n ELSE 46340)

\* tf.sqrt of a rational in lowest terms: exact when numerator and denominator
\* are squares (every radicand the calls of SpecSpline meet is), NaN below 0
VSqrt(v) ==
    IF IsNaN(v) \/ VLess(v, Zero) THEN NaN
    ELSE IF ~IsFinite(v) THEN v
    ELSE Norm(ISqrt(v[1]), ISqrt(v[2]))

SqrtIsExact(v) ==
    IsFinite(v) /\ v[1] >= 0 =>
        ISqrt(v[1]) * ISqrt(v[1]) = v[1] /\ ISqrt(v[2]) * ISqrt(v[2]) = v[2]

\* tf.nn.softmax(u, axis=-1)
SoftmaxOfExp(e) == MapDiv(e, Broadcast(ReduceSum(e), Len(e)))

Softmax(u) == SoftmaxOfExp(MapExp(u))

\* t[..., :-1] and t[..., 1:]
AllButLast(t) == SubSeq(t, 1, Len(t) - 1)

AllButFirst(t) == SubSeq(t, 2, Len(t))

\* (t[..., :-1] + t[..., 1:]) / 2
PairMeans(t) ==
    MapDiv(MapAdd(AllButLast(t), AllButFirst(t)), Broadcast(Int2V(2), Len(t) - 1))

\* flow.splines.spline._padded(t, lhs)
Padded(t, lhs) == <<lhs>> \o t

\* flow.splines.spline._knot_positions(bin_sizes, range_min)
KnotPositions(bin_sizes, range_min) == Padded(Cumsum(bin_sizes), range_min)

\* flow.splines.spline._search_sorted(cdf, inputs): the bin (from 0) whose left
\* knot is the last one at or below the input, among all knots but the last
SearchSorted(cdf, x) ==
    LET below == Cardinality({i \in 1 .. (Len(cdf) - 1) : VLeq(cdf[i], x)})
    IN  IF below = 0 THEN 0 ELSE below - 1

\* flow.splines.spline._gather_squeeze(params, indices)
GatherSqueeze(params, idx) == params[idx + 1]

\* tf.clip_by_value(v, lo, hi)
ClipByValue(v, lo, hi) ==
    IF IsNaN(v) THEN v ELSE IF VLess(v, lo) THEN lo ELSE IF VLess(hi, v) THEN hi ELSE v

\* the threshold of the quadratic branch of the inverse, 1e-3
QuadraticThreshold == <<1, 1000>>

\* widths = min_bin_width + (1 - min_bin_width * num_bins) * softmax
SplineWidths(unnormalized_widths, min_bin_width) ==
    MapAdd(Broadcast(min_bin_width, Len(unnormalized_widths)),
           MapMul(Broadcast(VSub(One, VMul(min_bin_width,
                                           Int2V(Len(unnormalized_widths)))),
                            Len(unnormalized_widths)),
                  Softmax(unnormalized_widths)))

\* the boundary height of the mode with num_bins - 1 height logits
BoundaryConstant(hexp, widths) ==
    VDiv(VAdd(VAdd(VMul(VMul(<<1, 2>>, VMul(<<1, 2>>, widths[1])), hexp[1]),
                   VMul(VMul(<<1, 2>>, VMul(<<1, 2>>, widths[Len(widths)])),
                        hexp[Len(hexp)])),
              ReduceSum(MapMul(PairMeans(hexp),
                               SubSeq(widths, 2, Len(widths) - 1)))),
         VSub(VSub(One, VMul(<<1, 2>>, VMul(<<1, 2>>, widths[1]))),
              VMul(<<1, 2>>, VMul(<<1, 2>>, widths[Len(widths)]))))

\* unnormalized_heights_exp, with the boundary heights added when missing
HeightsExp(unnormalized_heights, widths) ==
    IF Len(unnormalized_heights) = Len(widths) - 1
    THEN <<BoundaryConstant(MapExp(unnormalized_heights), widths)>>
         \o MapExp(unnormalized_heights)
         \o <<BoundaryConstant(MapExp(unnormalized_heights), widths)>>
    ELSE MapExp(unnormalized_heights)

\* unnormalized_area
UnnormalizedArea(hexp, widths) == ReduceSum(MapMul(PairMeans(hexp), widths))

\* mutant: the normalised heights are not scaled by 1 - min_bin_height
SplineHeightsUnscaled(hexp, widths, min_bin_height) ==
    MapAdd(Broadcast(min_bin_height, Len(hexp)),
           MapDiv(hexp, Broadcast(UnnormalizedArea(hexp, widths), Len(hexp))))

\* heights = min_bin_height + (1 - min_bin_height) * hexp / unnormalized_area
SplineHeights(hexp, widths, min_bin_height) ==
    MapAdd(Broadcast(min_bin_height, Len(hexp)),
           MapMul(Broadcast(VSub(One, min_bin_height), Len(hexp)),
                  MapDiv(hexp, Broadcast(UnnormalizedArea(hexp, widths),
                                         Len(hexp)))))

\* bin_left_cdf
BinLeftCdf(heights, widths) ==
    Padded(Cumsum(MapMul(PairMeans(heights), widths)), Zero)

\* alpha of the inverse direction:
\* tf.where(a > 1e-3, (-b + sqrt(b**2 - 4*a*c_)) / (2*a), -c_/b)
InverseAlpha(a, b, c_) ==
    IF VLess(QuadraticThreshold, a)
    THEN VDiv(VAdd(VNeg(b),
                   VSqrt(VSub(VMul(b, b), VMul(VMul(Int2V(4), a), c_)))),
              VMul(Int2V(2), a))
    ELSE VDiv(VNeg(c_), b)

\* alpha of the forward direction
ForwardAlpha(x, input_bin_locations, input_bin_widths) ==
    VDiv(VSub(x, input_bin_locations), input_bin_widths)

\* mutant: the CDF at the left knot of the bin is left out
ForwardOutputsNoOffset(a, b, c, alpha) ==
    VAdd(VMul(a, VMul(alpha, alpha)), VMul(b, alpha))

\* outputs of the forward direction before clipping: a*alpha**2 + b*alpha + c
ForwardOutputs(a, b, c, alpha) ==
    VAdd(VAdd(VMul(a, VMul(alpha, alpha)), VMul(b, alpha)), c)

\* lines 85-101 of quadratic_spline, from alpha on
SplineResult(x, inverse, cfg, bin_idx, alpha, a, b, c, w, loc, hl, hr) ==
    [raised |-> "", inverse |-> inverse, bin_idx |-> bin_idx,
     alpha |-> alpha, a |-> a, b |-> b, c_ |-> VSub(c, x),
     exact |-> (inverse /\ VLess(QuadraticThreshold, a)) =>
                  SqrtIsExact(VSub(VMul(b, b),
                                   VMul(VMul(Int2V(4), a), VSub(c, x)))),
     outputs |->
        IF inverse
        THEN VAdd(VMul(ClipByValue(VAdd(VMul(alpha, w), loc), Zero, One),
                       VSub(cfg.right, cfg.left)), cfg.left)
        ELSE VAdd(VMul(ClipByValue(ForwardOutputs(a, b, c, alpha), Zero, One),
                       VSub(cfg.top, cfg.bottom)), cfg.bottom),
     logabsdet |->
        IF inverse
        THEN LogAdd(LogSub(LogNeg(TfLog(VAdd(VMul(alpha, VSub(hr, hl)), hl))),
                           TfLog(VSub(cfg.top, cfg.bottom))),
                    TfLog(VSub(cfg.right, cfg.left)))
        ELSE LogSub(LogAdd(TfLog(VAdd(VMul(alpha, VSub(hr, hl)), hl)),
                           TfLog(VSub(cfg.top, cfg.bottom))),
                    TfLog(VSub(cfg.right, cfg.left)))]

\* lines 78-88: the coefficients of the located bin and alpha
SplineInBin(x, inverse, cfg, bin_idx, w, loc, c, hl, hr) ==
    SplineResult(x, inverse, cfg, bin_idx,
        IF inverse
        THEN InverseAlpha(VMul(VMul(<<1, 2>>, VSub(hr, hl)), w), VMul(hl, w),
                          VSub(c, x))
        ELSE ForwardAlpha(x, loc, w),
        VMul(VMul(<<1, 2>>, VSub(hr, hl)), w), VMul(hl, w), c, w, loc, hl, hr)

\* lines 66-76: locate the bin and gather its knots
SplineLocate(x, inverse, cfg, bin_idx, widths, heights, bin_left_cdf, bin_locations) ==
    SplineInBin(x, inverse, cfg, bin_idx,
                GatherSqueeze(widths, bin_idx),
                GatherSqueeze(bin_locations, bin_idx),
                GatherSqueeze(bin_left_cdf, bin_idx),
                GatherSqueeze(heights, bin_idx),
                GatherSqueeze(heights, bin_idx + 1))

\* lines 61-69: the knots and the bin search
SplineKnots(x, inverse, cfg, widths, heights) ==
    SplineLocate(x, inverse, cfg,
                 IF inverse THEN SearchSorted(BinLeftCdf(heights, widths), x)
                 ELSE SearchSorted(KnotPositions(widths, Zero), x),
                 widths, heights, BinLeftCdf(heights, widths),
                 KnotPositions(widths, Zero))

\* lines 35-59: the normalised widths and heights
SplineNormalise(x, inverse, cfg, widths) ==
    SplineKnots(x, inverse, cfg, widths,
                SplineHeights(HeightsExp(cfg.unnormalized_heights, widths),
                              widths, cfg.min_bin_height))

\* mutant: num_bins taken from the height logits
QuadraticSplineBinsFromHeights(inputs, inverse, cfg) ==
    IF VLess(One, VMul(cfg.min_bin_width, Int2V(Len(cfg.unnormalized_heights))))
    THEN [raised |-> "ValueError: Minimal bin width too large for the number of bins"]
    ELSE IF VLess(One, VMul(cfg.min_bin_height,
                            Int2V(Len(cfg.unnormalized_heights))))
    THEN [raised |-> "ValueError: Minimal bin height too large for the number of bins"]
    ELSE SplineNormalise(
            IF inverse
            THEN VDiv(VSub(inputs, cfg.bottom), VSub(cfg.top, cfg.bottom))
            ELSE VDiv(VSub(inputs, cfg.left), VSub(cfg.right, cfg.left)),
            inverse, cfg,
            SplineWidths(cfg.unnormalized_widths, cfg.min_bin_width))

\* quadratic_spline(inputs, unnormalized_widths, unnormalized_heights, inverse,
\*                  left, right, bottom, top, min_bin_width, min_bin_height)
QuadraticSpline(inputs, inverse, cfg) ==
    IF VLess(One, VMul(cfg.min_bin_width, Int2V(Len(cfg.unnormalized_widths))))
    THEN [raised |-> "ValueError: Minimal bin width too large for the number of bins"]
    ELSE IF VLess(One, VMul(cfg.min_bin_height,
                            Int2V(Len(cfg.unnormalized_widths))))
    THEN [raised |-> "ValueError: Minimal bin height too large for the number of bins"]
    ELSE SplineNormalise(
            IF inverse
            THEN VDiv(VSub(inputs, cfg.bottom), VSub(cfg.top, cfg.bottom))
            ELSE VDiv(VSub(inputs, cfg.left), VSub(cfg.right, cfg.left)),
            inverse, cfg,
            SplineWidths(cfg.unnormalized_widths, cfg.min_bin_width))

\* the raw width and height logits of the calls; softmax depends on the width
\* logits only up to a common shift, so the first one is 0
WidthLogits == {TfLog(One), TfLog(Int2V(3))}

WidthLogitVectors == {uw \in [1 .. NumBins -> WidthLogits] : uw[1] = TfLog(One)}

HeightLogits == {TfLog(One), TfLog(Int2V(3))}

\* the domains [left, right] and ranges [bottom, top] of the calls
SplineRanges ==
    { [left |-> Zero, right |-> One, bottom |-> Zero, top |-> One],
      [left |-> Zero, right |-> Int2V(2), bottom |-> One, top |-> Int2V(2)] }

\* the minimal bin widths and heights of the calls
MinBinValues == {<<1, 4>>}

\* the arguments of quadratic_spline other than inputs and inverse
SplineConfigs ==
    { [unnormalized_widths |-> uw, unnormalized_heights |-> uh,
       left |-> r.left, right |-> r.right, bottom |-> r.bottom, top |-> r.top,
       min_bin_width |-> mw, min_bin_height |-> mh] :
         uw \in WidthLogitVectors,
         uh \in [1 .. (NumBins + 1) -> HeightLogits],
         r \in SplineRanges, mw \in MinBinValues, mh \in MinBinValues }

NoSplineCall == [inputs |-> Zero, res |-> [raised |-> "none"]]

\* a call that returned: neither the idle record nor a raised error
Returned(cl) == cl.res.raised = ""

\* a call of quadratic_spline on input x
CallSpline(x, inverse) ==
    /\ call' = [inputs |-> x, res |-> QuadraticSpline(x, inverse, knots)]
    /\ prev' = call
    /\ UNCHANGED knots

\* a forward call on a point of the grid over [left, right]
ForwardOnGrid(k) ==
    /\ call = NoSplineCall \/ (Returned(call) /\ ~call.res.inverse)
    /\ CallSpline(VAdd(knots.left,
                       VMul(VSub(knots.right, knots.left), Norm(k, GridSize))),
                  FALSE)

\* an inverse call on the output of the forward call before it
InverseOfOutput ==
    /\ Returned(call) /\ ~call.res.inverse
    /\ CallSpline(call.res.outputs, TRUE)

---------------------------------------------------------------------------
(* flow/integration/integrator.py: the collaborators of the Integrator *)

\* the points dist.sample can return
Pts == {0, 1}

\* the target functions of the runs, as tables point -> value: positive
\* everywhere, zero at a point (a cut), not a number at a point
TargetTables ==
    { [x \in Pts |-> IF x = 0 THEN One ELSE Int2V(3)],
      [x \in Pts |-> IF x = 0 THEN Zero ELSE Int2V(3)],
      [x \in Pts |-> IF x = 0 THEN One ELSE NaN] }

\* the densities dist.prob of the flow as it trains, as tables point -> value:
\* positive and finite, below one at one point and above one at the other
ProbTables ==
    { [x \in Pts |-> IF x = 0 THEN <<1, 2>> ELSE Int2V(2)],
      [x \in Pts |-> IF x = 0 THEN Int2V(2) ELSE <<1, 2>>] }

Layers == 0 .. (NumLayers - 1)

\* d log_prob(x) / d theta_j of the flow, the sensitivity of the log-density at
\* point x to the weights of layer j
DLogQ(x, j) == IF (x + j) % 2 = 0 THEN One ELSE VNeg(One)

\* the keyword arguments the drivers construct an Integrator with
KwargSets == {{}, {"chi2"}, {"loss_func"}}

\* '{:02d}'.format(j): the decimal digits of j, zero-padded to width two
RECURSIVE Digits(_)
Digits(j) == IF j < 10 THEN <<j>> ELSE Append(Digits(j \div 10), j % 10)

Format02d(j) == IF Len(Digits(j)) < 2 THEN <<0>> \o Digits(j) ELSE Digits(j)

\* mutant: the layer index is left out of the file name
LayerFileNoIndex(j) == <<"./models/model_layer_">> \o Format02d(0)

\* './models/model_layer_{:02d}'.format(j)
LayerFile(j) == <<"./models/model_layer_">> \o Format02d(j)

NoCall ==
    [op |-> "none", nsamples |-> 0, samples |-> <<>>, test |-> <<>>,
     integral |-> FALSE, loss_finite |-> TRUE, mean |-> Zero, var |-> Zero,
     error |-> TfSqrt(Zero), weights |-> <<>>, grads |-> <<>>,
     theta_before |-> <<>>]

---------------------------------------------------------------------------
(* flow/integration/integrator.py: class Integrator *)

\* Integrator.__init__(func_, dist_, optimizer_, **kwargs)
IntegratorInit(func_, kwargs) ==
    /\ func = func_
    /\ global_step = 0
    /\ base_dist = [low |-> Zero, high |-> One]
    /\ theta = [j \in Layers |-> Zero]
    /\ opt_iterations = 0
    /\ loss_func = IF "chi2" \in kwargs THEN "chi2" ELSE "kl"
    /\ files = <<>>
    /\ saved_theta = <<>>
    /\ last = NoCall

\* whether logp = tf.where(true > 1e-16, log(true), log(true + 1e-16)) is
\* finite; the model's nonzero values all exceed 1e-16 in magnitude
LogpIsFinite(t) ==
    IF VLess(Zero, t) THEN LogIsFinite(t)
    ELSE IF t = Zero THEN TRUE
    ELSE FALSE

\* whether loss = reduce_mean(true/test * (logp - logq)) is finite: every
\* term is, and a term is when its weight and both logarithms are
RECURSIVE LossIsFinite(_, _, _)
LossIsFinite(wgt, true1, test) ==
    \/ wgt = <<>>
    \/ /\ IsFinite(Head(wgt))
       /\ LogpIsFinite(Head(true1))
       /\ LogIsFinite(Head(test))
       /\ LossIsFinite(Tail(wgt), Tail(true1), Tail(test))

\* the locals of train_one_step from true = true/mean on
TrainNormalised(mom, true1, test) ==
    [mean |-> mom.mean, var |-> mom.var, true |-> true1,
     wgt |-> MapDiv(true1, test),
     loss_finite |-> LossIsFinite(MapDiv(true1, test), true1, test)]

\* the locals of train_one_step after mean, var = moments(test/true)
TrainMoments(mom, true0, test) ==
    TrainNormalised(mom, MapDiv(true0, Broadcast(mom.mean, Len(true0))), test)

\* the locals of train_one_step for the drawn samples and their densities
TrainLocals(samples, test) ==
    TrainMoments(Moments(MapDiv(test, Gather(func, samples))),
                 Gather(func, samples), test)

\* tape.gradient(grad, trainable_variables) with
\* grad = reduce_mean(-stop_gradient((true/test)**2) * logq)
TapeGradient(samples, wgt) ==
    [j \in Layers |->
        VNeg(ReduceMean(MapMul(MapMul(wgt, wgt),
                               Gather([x \in Pts |-> DLogQ(x, j)], samples))))]

\* optimizer.apply_gradients: one descent step of unit size per variable
ApplyGradients(grads) ==
    [j \in Layers |->
        IF IsFinite(grads[j]) /\ IsFinite(theta[j])
        THEN VSub(theta[j], Int2V(VSign(grads[j])))
        ELSE NaN]

\* the body of train_one_step
TrainStep(n, samples, qv, integral) ==
    LET test == Gather(qv, samples)
        loc  == TrainLocals(samples, test)
        grads == TapeGradient(samples, loc.wgt)
    IN  /\ theta' = ApplyGradients(grads)
        /\ opt_iterations' = opt_iterations + 1
        /\ last' = [NoCall EXCEPT !.op = "train_one_step", !.nsamples = n,
                        !.samples = samples, !.test = test,
                        !.integral = integral,
                        !.loss_finite = loc.loss_finite,
                        !.mean = IF integral THEN loc.mean ELSE Zero,
                        !.var = IF integral THEN loc.var ELSE Zero,
                        !.error = IF integral
                                  THEN TfSqrt(VDiv(loc.var, Int2V(n)))
                                  ELSE TfSqrt(Zero),
                        !.weights = loc.wgt,
                        !.grads = grads]
        /\ UNCHANGED <<func, base_dist, loss_func, global_step, files,
                       saved_theta>>

\* Integrator.train_one_step(nsamples, integral), at most MaxSteps times
TrainOneStep(n, samples, qv, integral) ==
    /\ opt_iterations < MaxSteps
    /\ TrainStep(n, samples, qv, integral)

\* mutant: sample() counts as a training step
SampleCountsStep(n, samples) ==
    /\ last' = [NoCall EXCEPT !.op = "sample", !.nsamples = n,
                    !.samples = samples]
    /\ global_step' = global_step + 1
    /\ UNCHANGED <<func, base_dist, loss_func, theta, opt_iterations, files,
                   saved_theta>>

\* Integrator.sample(nsamples)
Sample(n, samples) ==
    /\ last' = [NoCall EXCEPT !.op = "sample", !.nsamples = n,
                    !.samples = samples]
    /\ UNCHANGED <<func, base_dist, loss_func, global_step, theta,
                   opt_iterations, files, saved_theta>>

\* mutant: the ratio of train_one_step, test/true
WeightsInverted(samples, test) == MapDiv(test, Gather(func, samples))

\* true/test of integrate and acceptance
Weights(samples, test) == MapDiv(Gather(func, samples), test)

\* Integrator.integrate(nsamples)
Integrate(n, samples, qv) ==
    LET test == Gather(qv, samples)
        mom  == Moments(Weights(samples, test))
    IN  /\ last' = [NoCall EXCEPT !.op = "integrate", !.nsamples = n,
                        !.samples = samples, !.test = test,
                        !.mean = mom.mean, !.var = mom.var]
        /\ UNCHANGED <<func, base_dist, loss_func, global_step, theta,
                       opt_iterations, files, saved_theta>>

\* Integrator.acceptance(nsamples)
Acceptance(n, samples, qv) ==
    LET test == Gather(qv, samples)
    IN  /\ last' = [NoCall EXCEPT !.op = "acceptance", !.nsamples = n,
                        !.samples = samples, !.test = test,
                        !.weights = Weights(samples, test)]
        /\ UNCHANGED <<func, base_dist, loss_func, global_step, theta,
                       opt_iterations, files, saved_theta>>

\* the directory after save_weights of layer 0 .. j in turn
RECURSIVE SaveWeights(_, _)
SaveWeights(dir, j) ==
    IF j < 0 THEN dir
    ELSE LET before == SaveWeights(dir, j - 1)
             name == LayerFile(j)
         IN  [f \in DOMAIN before \cup {name} |->
                 IF f = name THEN theta[j] ELSE before[f]]

\* Integrator.save()
Save ==
    /\ files' = SaveWeights(files, NumLayers - 1)
    /\ saved_theta' = theta
    /\ last' = [NoCall EXCEPT !.op = "save"]
    /\ UNCHANGED <<func, base_dist, loss_func, global_step, theta,
                   opt_iterations>>

\* Integrator.load(): load_weights of a file that was never written raises
Load ==
    /\ \A j \in Layers : LayerFile(j) \in DOMAIN files
    /\ theta' = [j \in Layers |-> files[LayerFile(j)]]
    /\ last' = [NoCall EXCEPT !.op = "load", !.theta_before = theta]
    /\ UNCHANGED <<func, base_dist, loss_func, global_step, opt_iterations,
                   files, saved_theta>>

SplineIdle == knots = <<>> /\ call = NoSplineCall /\ prev = NoSplineCall

\* no driver runs
DriverIdle == drv = [driver |-> "none"]

\* no second Integrator was constructed
OtherIdle == other = [constructed |-> FALSE]

\* the module of BijectorFactory is not imported
FactoryIdle == factory = [imported |-> FALSE]

\* no masks were built
MasksIdle == masks = [driver |-> "none"]

\* ewma was not called
EwmaIdle == ewma_call = [impl |-> "none"]

\* no session-based Integrator was constructed
SessionIdle == session = [constructed |-> FALSE, pc |-> "none"]

\* no phase-space point was generated
SherpaIdle == eetojjj = [op |-> "none"]

\* the batches of n points dist.sample(n) can return, up to the order of the
\* points in the batch
Batches(n) ==
    {s \in [1 .. n -> Pts] : \A i \in 1 .. (n - 1) : s[i] <= s[i + 1]}

Init ==
    /\ \E func_ \in TargetTables, kwargs \in KwargSets :
          IntegratorInit(func_, kwargs)
    /\ SplineIdle
    /\ DriverIdle /\ OtherIdle /\ FactoryIdle /\ MasksIdle /\ EwmaIdle
    /\ SessionIdle /\ SherpaIdle

\* training and the estimators: train_one_step, sample, integrate, acceptance
Next ==
    \/ \E n \in 1 .. MaxSamples : \E samples \in Batches(n) :
         \E qv \in ProbTables :
           TrainOneStep(n, samples, qv, TRUE) /\ UNCHANGED <<splVars, auxVars>>
    \/ \E n \in 1 .. MaxSamples : \E samples \in Batches(n) :
           Sample(n, samples) /\ UNCHANGED <<splVars, auxVars>>
    \/ \E n \in 1 .. MaxSamples : \E samples \in Batches(n) :
         \E qv \in ProbTables :
           Integrate(n, samples, qv) /\ UNCHANGED <<splVars, auxVars>>
    \/ \E n \in 1 .. MaxSamples : \E samples \in Batches(n) :
         \E qv \in ProbTables :
           Acceptance(n, samples, qv) /\ UNCHANGED <<splVars, auxVars>>

Spec == Init /\ [][Next]_vars

\* training and checkpoints: train_one_step, save, load
NextCheckpoint ==
    \/ \E n \in 1 .. MaxSamples : \E samples \in Batches(n) :
         \E qv \in ProbTables :
           TrainOneStep(n, samples, qv, TRUE) /\ UNCHANGED <<splVars, auxVars>>
    \/ Save /\ UNCHANGED <<splVars, auxVars>>
    \/ Load /\ UNCHANGED <<splVars, auxVars>>

SpecCheckpoint == Init /\ [][NextCheckpoint]_vars

\* quadratic_spline called on fixed parameters, with no Integrator at work
InitSpline ==
    /\ knots \in SplineConfigs
    /\ call = NoSplineCall
    /\ prev = NoSplineCall
    /\ IntegratorInit([x \in Pts |-> One], {})
    /\ DriverIdle /\ OtherIdle /\ FactoryIdle /\ MasksIdle /\ EwmaIdle
    /\ SessionIdle /\ SherpaIdle

NextSpline ==
    \/ \E k \in 0 .. GridSize :
         ForwardOnGrid(k) /\ UNCHANGED <<intVars, auxVars>>
    \/ InverseOfOutput /\ UNCHANGED <<intVars, auxVars>>

SpecSpline == InitSpline /\ [][NextSpline]_vars

---------------------------------------------------------------------------
(* Claims about spline/splines/quadratic.py *)

\* every square root the calls take is exact in the model
SplineSqrtExact == Returned(call) => call.res.exact

\* |x - y| <= 1e-6
WithinTolerance(x, y) ==
    /\ IsFinite(VSub(x, y))
    /\ Abs(VSub(x, y)[1]) <= VSub(x, y)[2] \div 1000000

\* two logarithms within 1e-6 of each other: their arguments' ratio is within
\* 1e-6 of one
LogWithinTolerance(l, m) == WithinTolerance(VDiv(l[2], m[2]), One)

\* the last call is the inverse call made on the output of a forward call
InverseAfterForward ==
    /\ Returned(call) /\ call.res.inverse
    /\ Returned(prev) /\ ~prev.res.inverse

\* C1: for every valid configuration, also with bins whose right knot height
\* is below the left one, and every x strictly inside [left, right],
\* quadratic_spline(quadratic_spline(x, inverse=False), inverse=True) returns
\* x within 1e-6.
C1_RoundTrip ==
    (/\ InverseAfterForward
     /\ VLess(knots.left, prev.inputs) /\ VLess(prev.inputs, knots.right)) =>
        WithinTolerance(call.res.outputs, prev.inputs)

\* C2: the log-Jacobian of the forward call at an in-domain x is the additive
\* inverse of the log-Jacobian of the inverse call at forward(x), also when
\* [left, right] and [bottom, top] differ from [0, 1].
C2_JacobianConsistency ==
    InverseAfterForward =>
        LogWithinTolerance(prev.res.logabsdet, LogNeg(call.res.logabsdet))

\* C3: for fixed spline parameters and two in-domain inputs x1 < x2, in one bin
\* or in different bins, forward(x1) < forward(x2).
C3_ForwardMonotone ==
    (/\ Returned(call) /\ ~call.res.inverse
     /\ Returned(prev) /\ ~prev.res.inverse
     /\ VLess(prev.inputs, call.inputs)) =>
        VLess(prev.res.outputs, call.res.outputs)

\* two forward calls on increasing inputs of different bins, the second in a
\* bin whose height falls, with a range other than [0, 1]
C3_TwoBinsFallingHeight ==
    /\ Returned(call) /\ ~call.res.inverse
    /\ Returned(prev) /\ ~prev.res.inverse
    /\ VLess(prev.inputs, call.inputs)
    /\ prev.res.bin_idx < call.res.bin_idx
    /\ VLess(call.res.a, Zero)
    /\ knots.bottom # Zero

\* a * alpha**2 + b * alpha + c_ of the last call
QuadraticResidual ==
    VAdd(VAdd(VMul(call.res.a, VMul(call.res.alpha, call.res.alpha)),
              VMul(call.res.b, call.res.alpha)),
         call.res.c_)

\* C19: in the inverse direction every bin whose quadratic coefficient
\* a = 0.5*(h_right - h_left)*width is not negligible in magnitude (above
\* 1e-3), positive or negative, is inverted with the quadratic formula: the
\* alpha of the call is a root of a*alpha**2 + b*alpha + c_.
C19_LinearFallbackOnlyWhenNegligible ==
    (/\ Returned(call) /\ call.res.inverse
     /\ VLess(QuadraticThreshold,
              IF VLess(call.res.a, Zero) THEN VNeg(call.res.a) ELSE call.res.a))
        => QuadraticResidual = Zero

---------------------------------------------------------------------------
(* Claims about flow/integration/integrator.py *)

\* the importance weights p/q of the last call's batch
PoverQ == MapDiv(Gather(func, last.samples), last.test)

\* the squared values of a batch
Squares(x) == MapMul(x, x)

\* the variance of a batch as mean of squares minus squared mean
VarianceOf(x) ==
    VSub(ReduceMean(Squares(x)), VMul(ReduceMean(x), ReduceMean(x)))

\* C4: train_one_step(n, integral=True) returns as its second value the batch
\* mean of the importance weights w = p/q and as its third value
\* sqrt(variance(w)/n), for the n samples drawn in that step (stated for the
\* batches on which the target is positive, so that every weight is finite).
C4_IntegralEstimate ==
    (/\ last.op = "train_one_step" /\ last.integral
     /\ \A i \in 1 .. last.nsamples : VLess(Zero, func[last.samples[i]])) =>
        /\ last.mean = ReduceMean(PoverQ)
        /\ last.error = TfSqrt(VDiv(VarianceOf(PoverQ), Int2V(last.nsamples)))

\* the gradient of the reported KL loss
\* reduce_mean(stop_gradient(true/test) * (stop_gradient(logp) - logq))
KLGradient(samples, wgt) ==
    [j \in Layers |->
        VNeg(ReduceMean(MapMul(wgt,
                               Gather([x \in Pts |-> DLogQ(x, j)], samples))))]

\* C5: the loss mode fixed at construction determines which loss the optimizer
\* step of train_one_step follows: in KL mode the gradient of the reported KL
\* loss, in chi-squared mode the gradient of the chi-squared loss.
C5_LossModeSelectsGradient ==
    last.op = "train_one_step" =>
        last.grads = IF loss_func = "chi2"
                     THEN TapeGradient(last.samples, last.weights)
                     ELSE KLGradient(last.samples, last.weights)

\* C6: after k completed train_one_step calls (each applies the optimizer
\* exactly once) the step counter global_step equals k.
C6_StepCounterCountsSteps == global_step = opt_iterations

\* C7: sample, integrate and acceptance leave the trainable parameters, the
\* optimizer state and the step counter unchanged; train_one_step never
\* changes the target function or the base distribution.
C7_Frame ==
    [][ /\ (last'.op \in {"sample", "integrate", "acceptance"}
              => UNCHANGED <<theta, opt_iterations, global_step>>)
        /\ (last'.op = "train_one_step" => UNCHANGED <<func, base_dist>>) ]_vars

\* a query (here integrate) answered after a training step moved the weights
C7_QueryAfterTraining ==
    /\ last.op = "integrate"
    /\ opt_iterations > 0
    /\ theta # [j \in Layers |-> Zero]

\* C8: integrate(n) returns (mean(w), variance(w)) of the n weights w = p/q,
\* the variance not divided by n; acceptance(n) returns the n raw weights.
C8_IntegrateAcceptanceResults ==
    /\ last.op = "integrate" =>
          /\ VMul(last.mean, Int2V(last.nsamples)) = ReduceSum(PoverQ)
          /\ last.var = VarianceOf(PoverQ)
    /\ last.op = "acceptance" =>
          /\ Len(last.weights) = last.nsamples
          /\ \A i \in 1 .. last.nsamples :
                last.weights[i] = VDiv(func[last.samples[i]], last.test[i])

\* integrate on a batch of two samples whose weights differ
C8_IntegrateSpreadBatch ==
    /\ last.op = "integrate"
    /\ last.nsamples = 2
    /\ IsFinite(last.var)
    /\ last.var # Zero

\* C9: whatever the target function returns on the batch (0, NaN, Inf), the
\* loss, integral and error returned by a training step are finite.
C9_FiniteEstimates ==
    last.op = "train_one_step" =>
        /\ last.loss_finite
        /\ IsFinite(last.mean)
        /\ IsFinite(last.error[2])
        /\ ~VLess(last.error[2], Zero)

\* the layer indices over which the file names are compared
MaxLayerIndex == 110

\* the file names of the layers 0 .. MaxLayerIndex
LayerFileNames == {LayerFile(j) : j \in 0 .. MaxLayerIndex}

\* C10: save() followed by training steps and load() restores every layer's
\* weights exactly; layer j is written to and read from the entry of its own
\* position j, and distinct layers never share an entry.
C10_SaveLoadRoundTrip ==
    /\ last.op = "load" => theta = saved_theta
    /\ \A j \in Layers :
          LayerFile(j) \in DOMAIN files => files[LayerFile(j)] = saved_theta[j]
    /\ Cardinality(LayerFileNames) = MaxLayerIndex + 1

\* a load that changed the weights: training moved them after the save
C10_LoadAfterTraining ==
    /\ last.op = "load"
    /\ last.theta_before # theta
    /\ opt_iterations > 0

---------------------------------------------------------------------------
(* The training loops of the drivers: AddOns/Tensorflow/train.py main,      *)
(* talk_Claudius/code/example.py main, flow/integration/integrator.py       *)
(* __main__. Each runs `for epoch in range(epochs)` inside try / except     *)
(* KeyboardInterrupt and then its post-training code. The directory         *)
(* ./models holds no checkpoint of an earlier run.                          *)

Drivers == {"train.py", "example.py", "integrator.py"}

\* the locals a completed train_one_step call binds in the loop
StepLocals == {"loss", "integral", "error"}

\* the driver at the top of its try block: nothing of the loop is bound
DriverStart(d) ==
    [driver |-> d, pc |-> "top", epochs_started |-> 0, bound |-> {},
     interrupted |-> FALSE, saves |-> 0, raised |-> ""]

\* `for epoch in range(epochs)`: the next epoch is bound; epochs is MaxSteps
DriverNextEpoch ==
    /\ drv.driver \in Drivers /\ drv.pc = "top"
    /\ drv.epochs_started < MaxSteps
    /\ drv' = [drv EXCEPT !.pc = "train",
                          !.epochs_started = drv.epochs_started + 1,
                          !.bound = drv.bound \cup {"epoch"}]
    /\ UNCHANGED intVars

\* the range is exhausted: the loop ends and the try block is left normally
DriverLoopEnd ==
    /\ drv.driver \in Drivers /\ drv.pc = "top"
    /\ drv.epochs_started = MaxSteps
    /\ drv' = [drv EXCEPT !.pc = "post"]
    /\ UNCHANGED intVars

\* loss, integral, error = integrate.train_one_step(nsamples, integral=True)
DriverTrain(n, samples, qv) ==
    /\ drv.driver \in Drivers /\ drv.pc = "train"
    /\ TrainOneStep(n, samples, qv, TRUE)
    /\ drv' = [drv EXCEPT !.pc = "after", !.bound = drv.bound \cup StepLocals]

\* whether `loss < min_loss` can hold after the step: never for a loss that is
\* not a number; always for the first finite loss against min_loss = 1e99
CanImprove(improved) ==
    /\ improved => last.loss_finite
    /\ (drv.driver = "integrator.py" /\ drv.saves = 0 /\ last.loss_finite)
          => improved

\* the rest of the loop body: `if loss < min_loss: integrate.save()` in
\* example.py and integrator.py, printing only in train.py
DriverAfterStep(improved) ==
    /\ drv.driver \in Drivers /\ drv.pc = "after"
    /\ CanImprove(improved)
    /\ IF improved /\ drv.driver # "train.py"
       THEN Save /\ drv' = [drv EXCEPT !.pc = "top", !.saves = drv.saves + 1]
       ELSE UNCHANGED intVars /\ drv' = [drv EXCEPT !.pc = "top"]

\* KeyboardInterrupt raised in the loop body between two statements: the
\* except clause is entered and the post-training code follows
DriverInterrupt ==
    /\ drv.driver \in Drivers /\ drv.pc \in {"train", "after"}
    /\ drv' = [drv EXCEPT !.pc = "post", !.interrupted = TRUE]
    /\ UNCHANGED intVars

\* KeyboardInterrupt raised inside train_one_step after the optimizer was
\* applied: the weights moved, the assignment of the results never happened
DriverInterruptInStep(n, samples, qv) ==
    /\ drv.driver \in Drivers /\ drv.pc = "train"
    /\ TrainOneStep(n, samples, qv, TRUE)
    /\ drv' = [drv EXCEPT !.pc = "post", !.interrupted = TRUE]

\* train.py line 198: print(... .format(epoch, loss, integral, error)) reads
\* the locals of the loop; reading an unbound local raises UnboundLocalError
DriverPostPrint ==
    /\ drv.driver = "train.py" /\ drv.pc = "post"
    /\ drv' = IF ({"epoch"} \cup StepLocals) \subseteq drv.bound
              THEN [drv EXCEPT !.pc = "returned"]
              ELSE [drv EXCEPT !.pc = "raised",
                               !.raised = "UnboundLocalError"]
    /\ UNCHANGED intVars

\* example.py line 177, integrator.py line 238: integrate.load(); load_weights
\* of a file that was never written raises
DriverPostLoad ==
    /\ drv.driver \in {"example.py", "integrator.py"} /\ drv.pc = "post"
    /\ IF \A j \in Layers : LayerFile(j) \in DOMAIN files
       THEN Load /\ drv' = [drv EXCEPT !.pc = "returned"]
       ELSE /\ drv' = [drv EXCEPT !.pc = "raised", !.raised = "NotFoundError"]
            /\ UNCHANGED intVars

InitDriver ==
    /\ \E func_ \in TargetTables : IntegratorInit(func_, {})
    /\ \E d \in Drivers : drv = DriverStart(d)
    /\ SplineIdle /\ OtherIdle /\ FactoryIdle /\ MasksIdle /\ EwmaIdle
    /\ SessionIdle /\ SherpaIdle

restOfDriver == <<splVars, other, factory, masks, ewma_call, session, eetojjj>>

NextDriver ==
    \/ DriverNextEpoch /\ UNCHANGED restOfDriver
    \/ DriverLoopEnd /\ UNCHANGED restOfDriver
    \/ \E n \in 1 .. MaxSamples : \E samples \in Batches(n) :
         \E qv \in ProbTables :
           DriverTrain(n, samples, qv) /\ UNCHANGED restOfDriver
    \/ \E improved \in BOOLEAN :
           DriverAfterStep(improved) /\ UNCHANGED restOfDriver
    \/ DriverInterrupt /\ UNCHANGED restOfDriver
    \/ \E n \in 1 .. MaxSamples : \E samples \in Batches(n) :
         \E qv \in ProbTables :
           DriverInterruptInStep(n, samples, qv) /\ UNCHANGED restOfDriver
    \/ DriverPostPrint /\ UNCHANGED restOfDriver
    \/ DriverPostLoad /\ UNCHANGED restOfDriver

SpecDriver == InitDriver /\ [][NextDriver]_vars

\* C11: in each driver, a KeyboardInterrupt raised inside the training loop,
\* also during the very first training step, is caught and the driver goes on
\* through its post-training code without raising.
C11_InterruptIsNormalReturn ==
    (drv.driver \in Drivers /\ drv.interrupted) => drv.pc # "raised"

---------------------------------------------------------------------------
(* Two Integrators in one process: self (the variables of class Integrator *)
(* above) and a second instance with its own flow and optimizer, built for *)
(* the same target function. Both run in the same working directory.       *)

\* Integrator.__init__ of the second instance
OtherInit ==
    other = [constructed |-> TRUE, theta |-> [j \in Layers |-> Zero],
             opt_iterations |-> 0, saved_theta |-> <<>>, op |-> "none"]

\* optimizer.apply_gradients of the second instance, on its own variables
OtherApplyGradients(grads) ==
    [j \in Layers |->
        IF IsFinite(grads[j]) /\ IsFinite(other.theta[j])
        THEN VSub(other.theta[j], Int2V(VSign(grads[j])))
        ELSE NaN]

\* train_one_step of the second instance
OtherTrainOneStep(n, samples, qv) ==
    /\ other.constructed /\ other.opt_iterations < MaxSteps
    /\ other' = [other EXCEPT
          !.theta = OtherApplyGradients(
                       TapeGradient(samples,
                          TrainLocals(samples, Gather(qv, samples)).wgt)),
          !.opt_iterations = other.opt_iterations + 1,
          !.op = "train_one_step"]
    /\ UNCHANGED intVars

\* the directory after save_weights of layers 0 .. j of the weights th
RECURSIVE SaveWeightsOf(_, _, _)
SaveWeightsOf(dir, th, j) ==
    IF j < 0 THEN dir
    ELSE LET before == SaveWeightsOf(dir, th, j - 1)
             name == LayerFile(j)
         IN  [f \in DOMAIN before \cup {name} |->
                 IF f = name THEN th[j] ELSE before[f]]

\* save() of the second instance
OtherSave ==
    /\ other.constructed
    /\ files' = SaveWeightsOf(files, other.theta, NumLayers - 1)
    /\ other' = [other EXCEPT !.saved_theta = other.theta, !.op = "save"]
    /\ UNCHANGED <<func, base_dist, loss_func, global_step, theta,
                   opt_iterations, saved_theta, last>>

\* load() of the second instance
OtherLoad ==
    /\ other.constructed
    /\ \A j \in Layers : LayerFile(j) \in DOMAIN files
    /\ other' = [other EXCEPT !.theta = [j \in Layers |-> files[LayerFile(j)]],
                              !.op = "load"]
    /\ UNCHANGED intVars

InitTwo ==
    /\ IntegratorInit([x \in Pts |-> IF x = 0 THEN One ELSE Int2V(3)], {})
    /\ OtherInit
    /\ SplineIdle /\ DriverIdle /\ FactoryIdle /\ MasksIdle /\ EwmaIdle
    /\ SessionIdle /\ SherpaIdle

restOfTwo == <<splVars, drv, factory, masks, ewma_call, session, eetojjj>>

\* both instances train on batches of one sample, on a positive target
NextTwo ==
    \/ \E samples \in Batches(1) : \E qv \in ProbTables :
           TrainOneStep(1, samples, qv, TRUE) /\ UNCHANGED <<restOfTwo, other>>
    \/ Save /\ UNCHANGED <<restOfTwo, other>>
    \/ Load /\ UNCHANGED <<restOfTwo, other>>
    \/ \E samples \in Batches(1) : \E qv \in ProbTables :
           OtherTrainOneStep(1, samples, qv) /\ UNCHANGED restOfTwo
    \/ OtherSave /\ UNCHANGED restOfTwo
    \/ OtherLoad /\ UNCHANGED restOfTwo

SpecTwo == InitTwo /\ [][NextTwo]_vars

\* C12: whatever the other Integrator does in between (train_one_step, save,
\* load), load() of an Integrator that saved before restores the weights that
\* Integrator saved last: A.save(), B.save(), A.load() restores A's, not B's.
C12_IndependentIntegrators ==
    /\ (last.op = "load" /\ saved_theta # <<>>) => theta = saved_theta
    /\ (other.constructed /\ other.op = "load" /\ other.saved_theta # <<>>) =>
          other.theta = other.saved_theta

---------------------------------------------------------------------------
(* spline/splines/quadratic.py: quadratic_spline over every configuration: *)
(* minimal bin sizes that the number of bins admits and ones it does not,  *)
(* num_bins + 1 height logits and the boundary mode of num_bins - 1, and   *)
(* inputs inside and outside [left, right].                                *)

\* the minimal bin widths and heights, below, at and above 1/2
MinBinChoices == {<<1, 4>>, <<1, 2>>, <<3, 4>>}

\* the height logits of a call: one per knot, or one per inner knot
HeightLogitVectors ==
    [1 .. (NumBins + 1) -> HeightLogits] \cup [1 .. (NumBins - 1) -> HeightLogits]

AllSplineConfigs ==
    { [unnormalized_widths |-> uw, unnormalized_heights |-> uh,
       left |-> Zero, right |-> Int2V(2), bottom |-> One, top |-> Int2V(2),
       min_bin_width |-> mw, min_bin_height |-> mh] :
         uw \in WidthLogitVectors, uh \in HeightLogitVectors,
         mw \in MinBinChoices, mh \in MinBinChoices }

\* the point of the grid over [left, right] at k / GridSize of the way; k < 0
\* and k > GridSize are outside the domain
GridPoint(k) ==
    VAdd(knots.left, VMul(VSub(knots.right, knots.left), Norm(k, GridSize)))

\* the first forward call on the parameters, on a point of the grid
ForwardFirst(k) ==
    /\ call = NoSplineCall
    /\ CallSpline(GridPoint(k), FALSE)

\* a forward call one grid step outside the domain, made after the forward
\* call on the boundary of that side
ForwardOutside(k) ==
    /\ Returned(call) /\ ~call.res.inverse
    /\ \/ k = -1 /\ call.inputs = knots.left
       \/ k = GridSize + 1 /\ call.inputs = knots.right
    /\ CallSpline(GridPoint(k), FALSE)

InitKnots ==
    /\ knots \in AllSplineConfigs
    /\ call = NoSplineCall
    /\ prev = NoSplineCall
    /\ IntegratorInit([x \in Pts |-> One], {})
    /\ DriverIdle /\ OtherIdle /\ FactoryIdle /\ MasksIdle /\ EwmaIdle
    /\ SessionIdle /\ SherpaIdle

NextKnots ==
    \/ \E k \in 0 .. GridSize :
         ForwardFirst(k) /\ UNCHANGED <<intVars, auxVars>>
    \/ \E k \in {-1, GridSize + 1} :
         ForwardOutside(k) /\ UNCHANGED <<intVars, auxVars>>

SpecKnots == InitKnots /\ [][NextKnots]_vars

WidthTooLarge == "ValueError: Minimal bin width too large for the number of bins"

HeightTooLarge == "ValueError: Minimal bin height too large for the number of bins"

\* min_bin * num_bins > 1, num_bins the number of width logits
ExceedsOne(min_bin) ==
    VLess(One, VMul(min_bin, Int2V(Len(knots.unnormalized_widths))))

\* C13: quadratic_spline raises a ValueError if and only if
\* min_bin_width * num_bins > 1 or min_bin_height * num_bins > 1, num_bins the
\* number of width logits; every other call returns.
C13_ConfigurationError ==
    call # NoSplineCall =>
        /\ call.res.raised \in {"", WidthTooLarge, HeightTooLarge}
        /\ (call.res.raised # "") <=>
              (ExceedsOne(knots.min_bin_width) \/ ExceedsOne(knots.min_bin_height))

\* a call that raised for the minimal height alone
C13_HeightAloneRaises ==
    /\ call # NoSplineCall
    /\ call.res.raised = HeightTooLarge
    /\ ~ExceedsOne(knots.min_bin_width)

\* the last call is a forward call outside the domain and the call before it
\* the forward call on the boundary of that side
OutsideAfterBoundary ==
    /\ Returned(prev) /\ ~prev.res.inverse
    /\ call # NoSplineCall /\ call # prev
    /\ \/ prev.inputs = knots.left /\ VLess(call.inputs, knots.left)
       \/ prev.inputs = knots.right /\ VLess(knots.right, call.inputs)

\* C14: a forward input below left is transformed exactly as left, one above
\* right exactly as right: the call raises nothing and returns the value and
\* the log-Jacobian of the nearest boundary.
C14_SilentClamping ==
    OutsideAfterBoundary =>
        /\ Returned(call)
        /\ call.res.outputs = prev.res.outputs
        /\ call.res.logabsdet = prev.res.logabsdet

\* the configuration passes the checks of lines 30-33
ValidConfig ==
    ~ExceedsOne(knots.min_bin_width) /\ ~ExceedsOne(knots.min_bin_height)

\* widths, heights, bin_locations and bin_left_cdf of the parameters
KnotWidths == SplineWidths(knots.unnormalized_widths, knots.min_bin_width)

KnotHeights ==
    SplineHeights(HeightsExp(knots.unnormalized_heights, KnotWidths),
                  KnotWidths, knots.min_bin_height)

\* a tuple that starts at 0, ends at 1 and increases strictly
FromZeroToOne(t) ==
    /\ t[1] = Zero /\ t[Len(t)] = One
    /\ \A i \in 1 .. (Len(t) - 1) : VLess(t[i], t[i + 1])

---------------------------------------------------------------------------
(* Integrator/integrator.py: class BijectorFactory and the module's factory *)

\* largest number of register_bijector calls after the import of the module
MaxRegistrations == 2
\* largest number of constructor calls made through create
MaxCreates == 2

\* the keys asked for, and the constructors of piecewise that are registered
FactoryKeys == {"linear", "quadratic", "quadratic_const"}

Constructors ==
    {"PiecewiseLinear", "PiecewiseQuadratic", "PiecewiseQuadraticConst"}

\* the keyword arguments Integrator.__init__ passes to create
CreateKwargs == {[D |-> 2, d |-> 1, nbins |-> 25, layer_id |-> i] : i \in 0 .. 1}

NoCreate == [op |-> "none"]

\* factory = BijectorFactory(); factory.register_bijector('linear', ...):
\* the state of the module after import. log is the history of registrations
FactoryImported ==
    [imported |-> TRUE,
     bijectors |-> [k \in {"linear"} |-> "PiecewiseLinear"],
     log |-> <<[key |-> "linear", bijector |-> "PiecewiseLinear"]>>,
     built |-> <<>>,
     last |-> NoCreate]

\* mutant: a key once registered keeps its first constructor
RegisterBijectorKeepFirst(key, bijector) ==
    /\ factory.imported /\ Len(factory.log) <= MaxRegistrations
    /\ factory' = [factory EXCEPT
          !.bijectors = [k \in DOMAIN factory.bijectors \cup {key} |->
                            IF k \in DOMAIN factory.bijectors
                            THEN factory.bijectors[k] ELSE bijector],
          !.log = Append(factory.log, [key |-> key, bijector |-> bijector]),
          !.last = [op |-> "register_bijector"]]

\* BijectorFactory.register_bijector(key, bijector)
RegisterBijector(key, bijector) ==
    /\ factory.imported /\ Len(factory.log) <= MaxRegistrations
    /\ factory' = [factory EXCEPT
          !.bijectors = [k \in DOMAIN factory.bijectors \cup {key} |->
                            IF k = key THEN bijector ELSE factory.bijectors[k]],
          !.log = Append(factory.log, [key |-> key, bijector |-> bijector]),
          !.last = [op |-> "register_bijector"]]

\* self._bijectors.get(key): None for a missing key
DictGet(d, key) == IF key \in DOMAIN d THEN d[key] ELSE "None"

\* BijectorFactory.create(key, **kwargs)
Create(key, kwargs) ==
    /\ factory.imported /\ Len(factory.built) < MaxCreates
    /\ factory' =
         IF DictGet(factory.bijectors, key) = "None"
         THEN [factory EXCEPT
                 !.last = [op |-> "create", key |-> key, kwargs |-> kwargs,
                           raised |-> "ValueError", payload |-> key,
                           result |-> "None",
                           built_before |-> factory.built]]
         ELSE [factory EXCEPT
                 !.built = Append(factory.built,
                                  [class |-> DictGet(factory.bijectors, key),
                                   kwargs |-> kwargs]),
                 !.last = [op |-> "create", key |-> key, kwargs |-> kwargs,
                           raised |-> "", payload |-> "",
                           result |-> [class |-> DictGet(factory.bijectors, key),
                                       kwargs |-> kwargs],
                           built_before |-> factory.built]]

InitFactory ==
    /\ factory = FactoryImported
    /\ IntegratorInit([x \in Pts |-> One], {})
    /\ SplineIdle /\ DriverIdle /\ OtherIdle /\ MasksIdle /\ EwmaIdle
    /\ SessionIdle /\ SherpaIdle

restOfFactory == <<intVars, splVars, drv, other, masks, ewma_call, session,
                    eetojjj>>

NextFactory ==
    \/ \E key \in FactoryKeys, bijector \in Constructors :
         RegisterBijector(key, bijector) /\ UNCHANGED restOfFactory
    \/ \E key \in FactoryKeys, kwargs \in CreateKwargs :
         Create(key, kwargs) /\ UNCHANGED restOfFactory

SpecFactory == InitFactory /\ [][NextFactory]_vars

\* the registrations of a key, in the order they were made
RegistrationsOf(key) ==
    SelectSeq(factory.log, LAMBDA r : r.key = key)

\* the constructor registered last under a key that was registered
LastRegistered(key) ==
    RegistrationsOf(key)[Len(RegistrationsOf(key))].bijector

\* C15: create(key) with a key never registered raises a failure whose payload
\* is the key and constructs nothing; with a registered key it returns the
\* result of calling the constructor registered last under that key with the
\* given keyword arguments.
C15_UnknownKeyRaises ==
    (factory.imported /\ factory.last.op = "create") =>
        IF RegistrationsOf(factory.last.key) = <<>>
        THEN /\ factory.last.raised = "ValueError"
             /\ factory.last.payload = factory.last.key
             /\ factory.built = factory.last.built_before
        ELSE /\ factory.last.raised = ""
             /\ factory.last.result =
                   [class |-> LastRegistered(factory.last.key),
                    kwargs |-> factory.last.kwargs]
             /\ factory.built =
                   Append(factory.last.built_before, factory.last.result)

\* a create of a key that was registered twice, with two constructors
C15_CreateAfterReRegistration ==
    /\ factory.imported /\ factory.last.op = "create"
    /\ Len(RegistrationsOf(factory.last.key)) >= 2
    /\ RegistrationsOf(factory.last.key)[1].bijector
          # LastRegistered(factory.last.key)

---------------------------------------------------------------------------
(* talk_Claudius/code/example.py and AddOns/Tensorflow/train.py: the masks  *)
(* of the coupling layers. A mask is a tuple of 0 and 1, one per dimension. *)

\* largest number of dimensions ndims of example.py
MaxDims == 6
\* largest number of particles nparts of train.py
MaxParts == 3

\* np.zeros(n), np.ones(n)
NpZeros(n) == [i \in 1 .. n |-> 0]

NpOnes(n) == [i \in 1 .. n |-> 1]

\* mask_alternating(ndims, even): mask[start::2] += 1, start = 0 if even else 1
MaskAlternating(ndims, even) ==
    [i \in 1 .. ndims |->
        IF (i - 1) >= (IF even THEN 0 ELSE 1)
           /\ ((i - 1) - (IF even THEN 0 ELSE 1)) % 2 = 0
        THEN 1 ELSE 0]

\* mutant: the second half starts one position after the midpoint
MaskSplitGap(ndims, first) ==
    [i \in 1 .. ndims |->
        IF first THEN (IF (i - 1) < ndims \div 2 THEN 1 ELSE 0)
        ELSE (IF (i - 1) >= (ndims \div 2) + 1 THEN 1 ELSE 0)]

\* mask_split(ndims, first): mask[:midpoint] += 1 or mask[midpoint:] += 1
MaskSplit(ndims, first) ==
    [i \in 1 .. ndims |->
        IF first THEN (IF (i - 1) < ndims \div 2 THEN 1 ELSE 0)
        ELSE (IF (i - 1) >= ndims \div 2 THEN 1 ELSE 0)]

\* mask_flip(mask): 1 - mask
MaskFlip(mask) == [i \in 1 .. Len(mask) |-> 1 - mask[i]]

\* example.py lines 140-145: the masks of main
ExampleMasks(ndims) ==
    << MaskAlternating(ndims, TRUE), MaskAlternating(ndims, FALSE),
       MaskSplit(ndims, TRUE), MaskSplit(ndims, FALSE) >>

\* train.py lines 148-153: channel_masks for ndims and nchannels
ChannelMasks(ndims, nchannels) ==
    [i \in 1 .. nchannels |->
        NpZeros(ndims) \o NpZeros(i - 1) \o NpOnes(nchannels - (i - 1))]

\* train.py lines 155-162: ps_masks
PsMasks(ndims, nchannels) ==
    << MaskAlternating(ndims, TRUE) \o NpZeros(nchannels),
       MaskAlternating(ndims, FALSE) \o NpZeros(nchannels),
       MaskAlternating(ndims, TRUE) \o NpZeros(nchannels),
       MaskAlternating(ndims, FALSE) \o NpZeros(nchannels) >>

\* train.py lines 121-123, 144-162: the masks of main for nparts particles
TrainMasks(nparts) ==
    ChannelMasks(3 * nparts - 4, nparts + 1)
        \o PsMasks(3 * nparts - 4, nparts + 1)

\* main of example.py builds its masks
BuildExampleMasks ==
    /\ masks.driver = "none"
    /\ masks' = [masks EXCEPT !.driver = "example.py",
                              !.layers = ExampleMasks(masks.ndims)]

\* main of train.py builds its masks
BuildTrainMasks(nparts) ==
    /\ masks.driver = "none"
    /\ masks' = [masks EXCEPT !.driver = "train.py", !.nparts = nparts,
                              !.ndims = (3 * nparts - 4) + (nparts + 1),
                              !.layers = TrainMasks(nparts)]

\* the mask helpers called in pairs on ndims, and mask_flip on a mask
BuildMaskPairs ==
    /\ masks.driver = "none"
    /\ masks' = [masks EXCEPT
          !.driver = "helpers",
          !.layers = << MaskAlternating(masks.ndims, TRUE),
                        MaskAlternating(masks.ndims, FALSE),
                        MaskSplit(masks.ndims, TRUE),
                        MaskSplit(masks.ndims, FALSE),
                        masks.mask, MaskFlip(masks.mask) >>]

\* ndims >= 2 and any mask over the dimensions
InitMasks ==
    /\ \E ndims \in 2 .. MaxDims : \E m \in [1 .. ndims -> {0, 1}] :
          masks = [driver |-> "none", ndims |-> ndims, nparts |-> 0,
                   mask |-> m, layers |-> <<>>]
    /\ IntegratorInit([x \in Pts |-> One], {})
    /\ SplineIdle /\ DriverIdle /\ OtherIdle /\ FactoryIdle /\ EwmaIdle
    /\ SessionIdle /\ SherpaIdle

restOfMasks == <<intVars, splVars, drv, other, factory, ewma_call, session,
                    eetojjj>>

NextMasks ==
    \/ BuildExampleMasks /\ UNCHANGED restOfMasks
    \/ \E nparts \in 2 .. MaxParts :
         BuildTrainMasks(nparts) /\ UNCHANGED restOfMasks
    \/ BuildMaskPairs /\ UNCHANGED restOfMasks

SpecMasks == InitMasks /\ [][NextMasks]_vars

\* every dimension has mask value 1 in one layer and 0 in another
EveryDimensionCovered(layers, ndims) ==
    \A i \in 1 .. ndims :
        /\ \E l \in 1 .. Len(layers) : layers[l][i] = 1
        /\ \E l \in 1 .. Len(layers) : layers[l][i] = 0

\* two masks of which exactly one has value 1 in every dimension
Complementary(m1, m2) ==
    /\ Len(m1) = Len(m2)
    /\ \A i \in 1 .. Len(m1) : m1[i] + m2[i] = 1

\* C16: for ndims >= 2 (nparts >= 2) the masks built by example.py and by
\* train.py give every dimension mask value 1 in one layer and 0 in another;
\* mask_alternating(n, True/False), mask_split(n, True/False) and
\* m / mask_flip(m) are complementary pairs.
C16_MaskCoverage ==
    /\ masks.driver \in {"example.py", "train.py"} =>
          /\ \A l \in 1 .. Len(masks.layers) : Len(masks.layers[l]) = masks.ndims
          /\ EveryDimensionCovered(masks.layers, masks.ndims)
    /\ masks.driver = "helpers" =>
          /\ Complementary(masks.layers[1], masks.layers[2])
          /\ Complementary(masks.layers[3], masks.layers[4])
          /\ Complementary(masks.layers[5], masks.layers[6])

\* the helper pairs on an odd number of dimensions, where the halves of
\* mask_split differ in size
C16_OddSplit ==
    /\ masks.driver = "helpers"
    /\ masks.ndims % 2 = 1
    /\ masks.layers[3] # masks.layers[4]

---------------------------------------------------------------------------
(* ewma(data, window) of flow/integration/integrator.py ("flow") and of     *)
(* Integrator/integrator.py ("Integrator").                                 *)
(* The weights np.exp(np.linspace(-1., 0., window)) / sum are irrational,   *)
(* so a weighted sum is kept as its terms: the function k -> x that stands  *)
(* for the sum over k of weights[k] * x, k from 0.                          *)

\* longest data sequence and largest window of the calls
MaxData == 4
MaxWindow == 3

\* the values of the data
DataValues == {0, 1}

\* np.convolve(data, weights, mode='full')[n], n from 0: the sum over k of
\* weights[k] * data[n - k] for the k with 0 <= n - k < len(data)
ConvolveAt(data, window, n) ==
    [k \in {j \in 0 .. (window - 1) : n - j >= 0 /\ n - j < Len(data)} |->
        data[(n - k) + 1]]

\* np.convolve(data, weights, mode='full')[:len(data)]
ConvolveHead(data, window) ==
    [i \in 1 .. Len(data) |-> ConvolveAt(data, window, i - 1)]

\* a[:window] = a[window]; return a[-1]. a[window] of an array of window
\* elements raises IndexError
SmoothedLast(a, window) ==
    IF window >= Len(a)
    THEN [raised |-> "IndexError", result |-> <<>>]
    ELSE [raised |-> "",
          result |-> [i \in 1 .. Len(a) |->
                         IF i <= window THEN a[window + 1] ELSE a[i]][Len(a)]]

\* the value data[-1], returned as it is
Unchanged(x) == [raised |-> "", result |-> <<"value", x>>]

\* flow/integration/integrator.py ewma: past the short branch, np (imported
\* under __main__ only) and weights (never assigned) are undefined names
EwmaFlow(data, window) ==
    IF Len(data) <= window
    THEN Unchanged(data[Len(data)])
    ELSE [raised |-> "NameError", result |-> <<>>]

\* Integrator/integrator.py ewma
EwmaIntegrator(data, window) ==
    IF Len(data) < window
    THEN Unchanged(data[Len(data)])
    ELSE SmoothedLast(ConvolveHead(data, window), window)

\* ewma(data, window) of one of the two modules
CallEwma(impl) ==
    /\ ewma_call.impl = "none"
    /\ ewma_call' =
         [ewma_call EXCEPT
            !.impl = impl,
            !.returned = IF impl = "flow"
                         THEN EwmaFlow(ewma_call.data, ewma_call.window)
                         ELSE EwmaIntegrator(ewma_call.data, ewma_call.window)]

\* a non-empty data sequence and a window of at least one element
InitEwma ==
    /\ \E window \in 1 .. MaxWindow, n \in 1 .. MaxData :
         \E data \in [1 .. n -> DataValues] :
           ewma_call = [impl |-> "none", data |-> data, window |-> window,
                        returned |-> [raised |-> "", result |-> <<>>]]
    /\ IntegratorInit([x \in Pts |-> One], {})
    /\ SplineIdle /\ DriverIdle /\ OtherIdle /\ FactoryIdle /\ MasksIdle
    /\ SessionIdle /\ SherpaIdle

restOfEwma == <<intVars, splVars, drv, other, factory, masks, session,
                    eetojjj>>

NextEwma ==
    \/ CallEwma("flow") /\ UNCHANGED restOfEwma
    \/ CallEwma("Integrator") /\ UNCHANGED restOfEwma

SpecEwma == InitEwma /\ [][NextEwma]_vars

EwmaCalled == ewma_call.impl \in {"flow", "Integrator"}

\* C17: for a non-empty data sequence of length <= window, also of length
\* window exactly, ewma(data, window) raises nothing and returns the last
\* element of data unchanged.
C17_EwmaShortSequence ==
    (EwmaCalled /\ Len(ewma_call.data) <= ewma_call.window) =>
        /\ ewma_call.returned.raised = ""
        /\ ewma_call.returned.result =
              <<"value", ewma_call.data[Len(ewma_call.data)]>>

\* the weighted sum of the last window elements of data: weights[k] on the
\* element k places before the last
RecentWeightedSum(data, window) ==
    [k \in 0 .. (window - 1) |-> data[Len(data) - k]]

\* C18: for a data sequence longer than window, ewma(data, window) returns a
\* value, not an error: the normalised exponentially weighted sum of the last
\* window elements only, whatever the older elements are.
C18_EwmaLongSequence ==
    (EwmaCalled /\ Len(ewma_call.data) > ewma_call.window) =>
        /\ ewma_call.returned.raised = ""
        /\ ewma_call.returned.result =
              RecentWeightedSum(ewma_call.data, ewma_call.window)

---------------------------------------------------------------------------
(* quadratic_spline in boundary mode (lines 40-58), under SpecKnots        *)

\* unnormalized_heights_exp / unnormalized_area of the parameters, the
\* heights of line 57 before the blend of line 58
NormalisedHeights ==
    MapDiv(HeightsExp(knots.unnormalized_heights, KnotWidths),
           Broadcast(UnnormalizedArea(HeightsExp(knots.unnormalized_heights,
                                                 KnotWidths), KnotWidths),
                     Len(KnotHeights)))

\* a call that returned on parameters with num_bins - 1 height logits
BoundaryModeCall ==
    /\ Returned(call)
    /\ Len(knots.unnormalized_heights) = NumBins - 1

\* C21: after a call in boundary mode, the first and the last knot height
\* are one and the same added value, and after the division by the
\* trapezoidal area, before the blend with min_bin_height, both are exactly 1.
C21_BoundaryHeightsAreOne ==
    BoundaryModeCall =>
        /\ Len(NormalisedHeights) = NumBins + 1
        /\ NormalisedHeights[1] = NormalisedHeights[NumBins + 1]
        /\ NormalisedHeights[1] = One
        /\ NormalisedHeights[NumBins + 1] = One

\* the part of C21 that the code keeps: one and the same value is added as
\* first and as last knot height
C21_SameBoundaryValue ==
    BoundaryModeCall =>
        /\ Len(NormalisedHeights) = NumBins + 1
        /\ NormalisedHeights[1] = NormalisedHeights[NumBins + 1]

---------------------------------------------------------------------------
(* Integrator/integrator.py: class Integrator, run in a tf.Session.        *)
(* optimize is followed statement by statement, so that an interrupt can   *)
(* arrive between any two of them. The values a session run returns are    *)
(* symbols indexed by the optimizer step that produced them.               *)

\* largest epochs argument of an optimize call
MaxEpochs == 5
\* largest number of optimize calls on one Integrator
MaxCalls == 2

\* the default of the mode argument of Integrator.__init__
DefaultMode == "quadratic"

\* the decay window of the ewma calls of optimize
EwmaWindow == 10

\* the values of the printout argument; 100 is the default
PrintoutChoices == {2, 100}

\* the positions inside optimize: the lines of the statements about to run
OptimizePositions ==
    {"l144", "l149", "l152", "l153", "l154", "l155", "l156", "l166"}

\* np_loss, np_integral, np_var returned by the k-th run of opt_op
RunResult(k) ==
    [loss |-> <<"loss", k>>, integral |-> <<"integral", k>>,
     var |-> <<"var", k>>]

\* the attributes an interruption or a failure of optimize must leave alone
History(i) ==
    [losses |-> i.losses, integrals |-> i.integrals, vars |-> i.vars,
     global_step |-> i.global_step, params |-> i.params]

\* Integrator(func, ndims, mode=mode): the lists of lines 62-65 and one
\* factory.create(mode) per dimension; create raises on an unknown key
SessionInit(mode, ndims) ==
    /\ factory.imported /\ ~session.constructed
    /\ session' =
         IF DictGet(factory.bijectors, mode) = "None"
         THEN [constructed |-> FALSE, pc |-> "none", mode |-> mode,
               ndims |-> ndims, raised |-> "ValueError", payload |-> mode]
         ELSE [constructed |-> TRUE, pc |-> "idle", mode |-> mode,
               ndims |-> ndims, raised |-> "", payload |-> "",
               bijectors |-> [i \in 1 .. ndims |->
                                [class |-> DictGet(factory.bijectors, mode),
                                 layer_id |-> i - 1]],
               losses |-> <<>>, integrals |-> <<>>, vars |-> <<>>,
               global_step |-> 0,
               params |-> 0, opt_op |-> FALSE,
               calls |-> 0, epochs |-> 0, printout |-> 100,
               epoch |-> -1, np |-> <<>>,
               interrupted |-> FALSE, completed_epochs |-> 0,
               at_call |-> <<>>]

\* make_optimizer(): builds self.loss, ..., self.opt_op
MakeOptimizer ==
    /\ session.constructed /\ session.pc = "idle" /\ ~session.opt_op
    /\ session' = [session EXCEPT !.opt_op = TRUE]

\* optimize(sess, epochs=epochs, printout=printout) is entered: lines 113-141
\* bind the arguments; epoch and np_loss, np_integral, np_var are unbound
OptimizeEnter(epochs, printout) ==
    /\ session.constructed /\ session.pc = "idle"
    /\ session.calls < MaxCalls
    /\ session' = [session EXCEPT
          !.pc = "l144", !.calls = @ + 1, !.epochs = epochs,
          !.printout = printout, !.epoch = -1, !.np = <<>>, !.raised = "",
          !.at_call = History(session)]

\* line 144: for epoch in range(epochs)
OptimizeFor ==
    /\ session.pc = "l144"
    /\ session' =
         IF session.epoch + 1 < session.epochs
         THEN [session EXCEPT !.epoch = @ + 1, !.pc = "l149"]
         ELSE [session EXCEPT !.pc = "l166"]

\* line 149: sess.run([self.opt_op, self.loss, ...]); without make_optimizer
\* the attribute opt_op does not exist
OptimizeRun ==
    /\ session.pc = "l149"
    /\ session' =
         IF ~session.opt_op
         THEN [session EXCEPT !.pc = "idle", !.raised = "AttributeError"]
         ELSE [session EXCEPT !.params = @ + 1,
                              !.np = RunResult(session.params + 1),
                              !.pc = "l152"]

\* line 152: self.global_step += 1
OptimizeCountStep ==
    /\ session.pc = "l152"
    /\ session' = [session EXCEPT !.global_step = @ + 1, !.pc = "l153"]

\* mutant: the loss of the epoch replaces the recorded losses
OptimizeKeepLastLoss ==
    /\ session.pc = "l153"
    /\ session' = [session EXCEPT !.losses = <<session.np.loss>>,
                                  !.pc = "l154"]

\* line 153: self.losses.append(np_loss)
OptimizeAppendLoss ==
    /\ session.pc = "l153"
    /\ session' = [session EXCEPT !.losses = Append(@, session.np.loss),
                                  !.pc = "l154"]

\* line 154: self.integrals.append(np_integral)
OptimizeAppendIntegral ==
    /\ session.pc = "l154"
    /\ session' = [session EXCEPT
          !.integrals = Append(@, session.np.integral), !.pc = "l155"]

\* line 155: self.vars.append(np_var); the epoch's bookkeeping is complete
OptimizeAppendVar ==
    /\ session.pc = "l155"
    /\ session' = [session EXCEPT !.vars = Append(@, session.np.var),
                                  !.completed_epochs = @ + 1,
                                  !.pc = "l156"]

\* the print of lines 157-158 and 166-167 evaluates ewma(self.integrals, 10)
\* and ewma(self.vars, 10), lists of one length
PrintRaises ==
    EwmaIntegrator(session.integrals, EwmaWindow).raised # ""

\* lines 156-158: if epoch % printout == 0: print(...)
OptimizePrintout ==
    /\ session.pc = "l156"
    /\ session' =
         IF session.epoch % session.printout = 0 /\ PrintRaises
         THEN [session EXCEPT !.pc = "idle", !.raised = "IndexError"]
         ELSE [session EXCEPT !.pc = "l144"]

\* lines 166-167: print("..." % (epoch, np_loss, ewma(...), ...)) after the
\* loop; epoch and np_loss are bound by the first epoch only
OptimizeFinalPrint ==
    /\ session.pc = "l166"
    /\ session' =
         IF session.epoch = -1
         THEN [session EXCEPT !.pc = "idle", !.raised = "UnboundLocalError"]
         ELSE IF PrintRaises
         THEN [session EXCEPT !.pc = "idle", !.raised = "IndexError"]
         ELSE [session EXCEPT !.pc = "idle"]

\* KeyboardInterrupt inside optimize, which has no handler: the call ends
\* where it stands. An interrupt during the session run arrives before or
\* after the optimizer has updated the parameters
OptimizeInterrupt(applied) ==
    /\ session.pc \in OptimizePositions
    /\ applied => (session.pc = "l149" /\ session.opt_op)
    /\ session' = [session EXCEPT
          !.pc = "idle", !.raised = "KeyboardInterrupt",
          !.interrupted = TRUE,
          !.params = IF applied THEN @ + 1 ELSE @]

InitSession ==
    /\ factory = FactoryImported
    /\ session = [constructed |-> FALSE, pc |-> "none"]
    /\ IntegratorInit([x \in Pts |-> One], {})
    /\ SplineIdle /\ DriverIdle /\ OtherIdle /\ MasksIdle /\ EwmaIdle
    /\ SherpaIdle

restOfSession ==
    <<intVars, splVars, drv, other, factory, masks, ewma_call, eetojjj>>

NextSession ==
    \/ \E mode \in {DefaultMode, "linear"}, ndims \in 1 .. 2 :
         SessionInit(mode, ndims) /\ UNCHANGED restOfSession
    \/ MakeOptimizer /\ UNCHANGED restOfSession
    \/ \E epochs \in 0 .. MaxEpochs, printout \in PrintoutChoices :
         OptimizeEnter(epochs, printout) /\ UNCHANGED restOfSession
    \/ OptimizeFor /\ UNCHANGED restOfSession
    \/ OptimizeRun /\ UNCHANGED restOfSession
    \/ OptimizeCountStep /\ UNCHANGED restOfSession
    \/ OptimizeAppendLoss /\ UNCHANGED restOfSession
    \/ OptimizeAppendIntegral /\ UNCHANGED restOfSession
    \/ OptimizeAppendVar /\ UNCHANGED restOfSession
    \/ OptimizePrintout /\ UNCHANGED restOfSession
    \/ OptimizeFinalPrint /\ UNCHANGED restOfSession
    \/ \E applied \in BOOLEAN :
         OptimizeInterrupt(applied) /\ UNCHANGED restOfSession

SpecSession == InitSession /\ [][NextSession]_vars

---------------------------------------------------------------------------
(* Claims about the session-based Integrator, under SpecSession *)

\* len(losses) = len(integrals) = len(vars) = global_step
HistoryConsistent ==
    /\ Len(session.losses) = session.global_step
    /\ Len(session.integrals) = session.global_step
    /\ Len(session.vars) = session.global_step

\* a is an initial part of b
IsPrefix(a, b) == Len(a) <= Len(b) /\ SubSeq(b, 1, Len(a)) = a

\* between two epochs of a call, and after its loop, each of the epoch + 1
\* completed epochs has added one entry to each list and 1 to global_step
OnePerEpoch ==
    /\ Len(session.losses) = Len(session.at_call.losses) + session.epoch + 1
    /\ Len(session.integrals)
          = Len(session.at_call.integrals) + session.epoch + 1
    /\ Len(session.vars) = Len(session.at_call.vars) + session.epoch + 1
    /\ session.global_step = session.at_call.global_step + session.epoch + 1

\* no recorded entry is modified or removed, and global_step never decreases
AppendOnly ==
    (session.constructed /\ session'.constructed) =>
        /\ IsPrefix(session.losses, session'.losses)
        /\ IsPrefix(session.integrals, session'.integrals)
        /\ IsPrefix(session.vars, session'.vars)
        /\ session.global_step <= session'.global_step

\* C22: as long as no optimize call was interrupted, after every optimize
\* call len(losses) = len(integrals) = len(vars) = global_step; every
\* completed epoch of a call has added exactly one entry to each list and 1
\* to global_step; and no step of the Integrator modifies or removes a
\* recorded entry, in one call or across calls.
C22_HistoryInvariant ==
    /\ []((session.constructed /\ ~session.interrupted) =>
            /\ session.pc = "idle" =>
                  /\ HistoryConsistent
                  /\ session.global_step = session.completed_epochs
            /\ session.pc \in {"l144", "l166"} => OnePerEpoch)
    /\ [][AppendOnly]_vars

\* a second optimize call has returned, after epochs of both calls
C22_TwoCallsCompleted ==
    /\ session.constructed /\ session.pc = "idle" /\ ~session.interrupted
    /\ session.calls = 2 /\ session.raised = ""
    /\ Len(session.at_call.losses) >= 1
    /\ Len(session.losses) > Len(session.at_call.losses)

\* C23: an optimize call that an interrupt ended, at any position of the
\* epoch loop, leaves len(losses) = len(integrals) = len(vars) = global_step.
C23_InterruptKeepsHistoryConsistent ==
    (session.constructed /\ session.pc = "idle"
        /\ session.raised = "KeyboardInterrupt") => HistoryConsistent

\* C28: optimize(sess, epochs=0) returns without raising and leaves the
\* histories, the step counter and the flow parameters as they were.
C28_ZeroEpochsReturnsNormally ==
    (session.constructed /\ session.pc = "idle" /\ session.calls > 0
        /\ session.epochs = 0 /\ session.raised # "KeyboardInterrupt") =>
        /\ session.raised = ""
        /\ History(session) = session.at_call

\* C30: Integrator(func, ndims) with the default mode finds its bijector in
\* the factory and builds ndims coupling layers.
C30_DefaultModeIsRegistered ==
    ("mode" \in DOMAIN session /\ session.mode = DefaultMode) =>
        /\ session.constructed
        /\ session.raised = ""
        /\ Len(session.bijectors) = session.ndims

\* an optimize call that ended in the IndexError of ewma, with ten entries
\* recorded and no interrupt before
C22_EndedInEwmaFailure ==
    /\ session.constructed /\ session.pc = "idle" /\ ~session.interrupted
    /\ session.raised = "IndexError"
    /\ Len(session.integrals) = EwmaWindow

---------------------------------------------------------------------------
(* The checkpointing drivers, statement by statement: main of              *)
(* talk_Claudius/code/example.py and __main__ of                           *)
(* flow/integration/integrator.py. Each keeps min_loss, calls save() when  *)
(* the loss of a step falls below it, and calls load() after the loop. The *)
(* directory ./models holds no checkpoint of an earlier run.               *)

CheckpointDrivers == {"example.py", "integrator.py"}

\* stands for the float 1e99: above every finite loss of the model, below
\* +Inf
Float1e99 == <<1000000000, 1>>

\* min_loss before the loop: 1e3 in example.py, 1e99 in integrator.py
InitialMinLoss(d) == IF d = "example.py" THEN Int2V(1000) ELSE Float1e99

\* the losses train_one_step returns: below and above 1e3, equal ones in
\* successive steps, and the non-finite ones
LossValues == {One, Int2V(2), Int2V(2000), NaN, PInf}

\* the driver before its try block, with FLAGS.epochs = epochs
BestStart(d, epochs) ==
    [driver |-> d, pc |-> "for", epochs |-> epochs, epoch |-> -1,
     min_loss |-> InitialMinLoss(d), loss |-> <<>>, losses |-> <<>>,
     min_losses |-> <<>>, saved_steps |-> {}, interrupted |-> FALSE,
     raised |-> ""]

\* for epoch in range(epochs): the next epoch, or the end of the try block
BestFor ==
    /\ drv.driver \in CheckpointDrivers /\ drv.pc = "for"
    /\ drv' = IF drv.epoch + 1 < drv.epochs
              THEN [drv EXCEPT !.epoch = @ + 1, !.pc = "train"]
              ELSE [drv EXCEPT !.pc = "load"]
    /\ UNCHANGED intVars

\* loss, integral, error = integrate.train_one_step(nsamples, integral=True);
\* the loss is a number exactly when the step computed a finite one
BestTrain(n, samples, qv, loss) ==
    /\ drv.driver \in CheckpointDrivers /\ drv.pc = "train"
    /\ TrainOneStep(n, samples, qv, TRUE)
    /\ IsFinite(loss) <=> last'.loss_finite
    /\ drv' = [drv EXCEPT !.pc = "if", !.loss = loss,
                          !.losses = Append(@, loss)]

\* mutant: the comparison with min_loss is not strict
BestCompareNotStrict ==
    /\ drv.driver \in CheckpointDrivers /\ drv.pc = "if"
    /\ drv' = IF VLeq(drv.loss, drv.min_loss)
              THEN [drv EXCEPT !.pc = "assign"]
              ELSE [drv EXCEPT !.pc = "print",
                               !.min_losses = Append(@, drv.min_loss)]
    /\ UNCHANGED intVars

\* if loss < min_loss:
BestCompare ==
    /\ drv.driver \in CheckpointDrivers /\ drv.pc = "if"
    /\ drv' = IF VLess(drv.loss, drv.min_loss)
              THEN [drv EXCEPT !.pc = "assign"]
              ELSE [drv EXCEPT !.pc = "print",
                               !.min_losses = Append(@, drv.min_loss)]
    /\ UNCHANGED intVars

\* min_loss = loss
BestAssign ==
    /\ drv.driver \in CheckpointDrivers /\ drv.pc = "assign"
    /\ drv' = [drv EXCEPT !.min_loss = drv.loss, !.pc = "save"]
    /\ UNCHANGED intVars

\* integrate.save()
BestSave ==
    /\ drv.driver \in CheckpointDrivers /\ drv.pc = "save"
    /\ Save
    /\ drv' = [drv EXCEPT !.pc = "print",
                          !.saved_steps = @ \cup {Len(drv.losses)},
                          !.min_losses = Append(@, drv.min_loss)]

\* the printout that ends the loop body
BestPrint ==
    /\ drv.driver \in CheckpointDrivers /\ drv.pc = "print"
    /\ drv' = [drv EXCEPT !.pc = "for"]
    /\ UNCHANGED intVars

\* KeyboardInterrupt between two statements of the loop: the except clause
\* is passed and the code after the try block follows
BestInterrupt ==
    /\ drv.driver \in CheckpointDrivers
    /\ drv.pc \in {"train", "if", "assign", "save", "print"}
    /\ drv' = [drv EXCEPT !.pc = "load", !.interrupted = TRUE]
    /\ UNCHANGED intVars

\* KeyboardInterrupt inside train_one_step after the optimizer was applied
BestInterruptInStep(n, samples, qv) ==
    /\ drv.driver \in CheckpointDrivers /\ drv.pc = "train"
    /\ TrainOneStep(n, samples, qv, TRUE)
    /\ drv' = [drv EXCEPT !.pc = "load", !.interrupted = TRUE]

\* integrate.load() after the try block (example.py line 177, integrator.py
\* line 238); load_weights of a file that was never written raises
BestLoad ==
    /\ drv.driver \in CheckpointDrivers /\ drv.pc = "load"
    /\ IF \A j \in Layers : LayerFile(j) \in DOMAIN files
       THEN Load /\ drv' = [drv EXCEPT !.pc = "returned"]
       ELSE /\ drv' = [drv EXCEPT !.pc = "raised", !.raised = "NotFoundError"]
            /\ UNCHANGED intVars

\* FLAGS.epochs of example.py is any number from 0; epochs of integrator.py
\* is fixed in the script (500), MaxSteps in the model
InitBest ==
    /\ \E func_ \in TargetTables : IntegratorInit(func_, {})
    /\ \/ \E epochs \in 0 .. MaxSteps : drv = BestStart("example.py", epochs)
       \/ drv = BestStart("integrator.py", MaxSteps)
    /\ SplineIdle /\ OtherIdle /\ FactoryIdle /\ MasksIdle /\ EwmaIdle
    /\ SessionIdle /\ SherpaIdle

NextBest ==
    \/ BestFor /\ UNCHANGED restOfDriver
    \/ \E samples \in Batches(1), qv \in ProbTables, loss \in LossValues :
         BestTrain(1, samples, qv, loss) /\ UNCHANGED restOfDriver
    \/ BestCompare /\ UNCHANGED restOfDriver
    \/ BestAssign /\ UNCHANGED restOfDriver
    \/ BestSave /\ UNCHANGED restOfDriver
    \/ BestPrint /\ UNCHANGED restOfDriver
    \/ BestInterrupt /\ UNCHANGED restOfDriver
    \/ \E samples \in Batches(1), qv \in ProbTables :
         BestInterruptInStep(1, samples, qv) /\ UNCHANGED restOfDriver
    \/ BestLoad /\ UNCHANGED restOfDriver

SpecBest == InitBest /\ [][NextBest]_vars

\* the loss of step i is strictly smaller than the initial threshold and
\* than every loss returned before it; a loss that is not a number is
\* smaller than nothing and bounds nothing
StrictlyBest(i) ==
    /\ VLess(drv.losses[i], InitialMinLoss(drv.driver))
    /\ \A j \in 1 .. (i - 1) :
          IsNaN(drv.losses[j]) \/ VLess(drv.losses[i], drv.losses[j])

\* the minimum of two floats, of which a is a number: b when b is a smaller
\* number
Minimum(a, b) == IF VLess(b, a) THEN b ELSE a

\* the minimum of the initial threshold and the first i losses
RECURSIVE MinimumUpTo(_)
MinimumUpTo(i) ==
    IF i = 0 THEN InitialMinLoss(drv.driver)
    ELSE Minimum(MinimumUpTo(i - 1), drv.losses[i])

\* C24: in a run of example.py or integrator.py, for every step whose loop
\* body completed: save() was invoked after the step exactly when its loss is
\* strictly smaller than the initial threshold and than every loss returned
\* earlier, and min_loss after the step equals the minimum of the initial
\* threshold and all losses returned so far. Losses that are not a number
\* take no part in the comparisons and in the minimum.
C24_BestSoFarCheckpoint ==
    drv.driver \in CheckpointDrivers =>
        \A i \in 1 .. Len(drv.min_losses) :
            /\ i \in drv.saved_steps <=> StrictlyBest(i)
            /\ drv.min_losses[i] = MinimumUpTo(i)

\* a run that saved at its first step and not at its second, of equal loss
C24_SavedOnceOfTwo ==
    /\ drv.driver \in CheckpointDrivers /\ Len(drv.min_losses) = 2
    /\ drv.saved_steps = {1} /\ drv.losses[1] = drv.losses[2]

\* C27: in example.py and integrator.py, whenever load() is reached, a save()
\* of the same run has completed before, so load() returns and restores the
\* parameters this run saved.
C27_LoadOnlyAfterSave ==
    (drv.driver \in CheckpointDrivers /\ drv.pc \in {"returned", "raised"}) =>
        /\ drv.saved_steps # {}
        /\ drv.pc = "returned"
        /\ theta = saved_theta

---------------------------------------------------------------------------
(* AddOns/Tensorflow/train.py: build_network and the loop of main, with the *)
(* trainable flag of every layer of every transform_net. The channel        *)
(* layers are PiecewiseLinear, the phase-space layers                       *)
(* PiecewiseRationalQuadratic.                                              *)

\* layers of a model of build_dense: the input and three Dense layers
NetLayers == 4

\* the values of FLAGS.printout
PrintoutFlags == {1, 2}

\* a coupling layer whose transform_net layers all have the flag t
Coupling(kind, t) == [kind |-> kind, trainable |-> [l \in 1 .. NetLayers |-> t]]

\* the elements of a tuple in reverse order
Reversed(t) == [k \in 1 .. Len(t) |-> t[Len(t) + 1 - k]]

\* build_network(channel_masks, ps_masks): the channel layers are frozen
\* after construction, the phase-space layers keep the default; the chain
\* holds the bijectors in reverse order
BuildNetwork(channel_masks, ps_masks) ==
    Reversed([k \in 1 .. Len(channel_masks) |-> Coupling("PiecewiseLinear", FALSE)]
             \o [k \in 1 .. Len(ps_masks) |->
                     Coupling("PiecewiseRationalQuadratic", TRUE)])

\* main up to its try block, for nparts particles
GroupsStart(nparts, epochs, printout) ==
    [driver |-> "train.py", pc |-> "for", epochs |-> epochs,
     printout |-> printout, epoch |-> -1, bound |-> {},
     bijectors |-> BuildNetwork(ChannelMasks(3 * nparts - 4, nparts + 1),
                                PsMasks(3 * nparts - 4, nparts + 1)),
     next |-> 0, calls |-> <<>>, interrupted |-> FALSE, raised |-> ""]

\* line 173: for epoch in range(FLAGS.epochs)
GroupsFor ==
    /\ drv.driver = "train.py" /\ drv.pc = "for"
    /\ drv' = IF drv.epoch + 1 < drv.epochs
              THEN [drv EXCEPT !.epoch = @ + 1, !.pc = "train",
                               !.bound = @ \cup {"epoch"}]
              ELSE [drv EXCEPT !.pc = "post"]
    /\ UNCHANGED intVars

\* line 180: loss, integral, error = integrate.train_one_step(...); calls
\* records the flags the call was made under
GroupsTrain(n, samples, qv) ==
    /\ drv.driver = "train.py" /\ drv.pc = "train"
    /\ TrainStep(n, samples, qv, TRUE)
    /\ drv' = [drv EXCEPT
          !.pc = "if", !.bound = @ \cup StepLocals,
          !.calls = Append(@, [epoch |-> drv.epoch,
                               bijectors |-> drv.bijectors])]

\* mutant: the flags are flipped after every epoch
GroupsEveryEpoch ==
    /\ drv.driver = "train.py" /\ drv.pc = "if"
    /\ drv' = [drv EXCEPT !.pc = "flip", !.next = 1]
    /\ UNCHANGED intVars

\* line 181: if epoch % printout == 0
GroupsIfPrintout ==
    /\ drv.driver = "train.py" /\ drv.pc = "if"
    /\ drv' = IF drv.epoch % drv.printout = 0
              THEN [drv EXCEPT !.pc = "flip", !.next = 1]
              ELSE [drv EXCEPT !.pc = "for"]
    /\ UNCHANGED intVars

\* lines 185-187, one bijector of the chain: for layer in
\* bijector.transform_net.layers: layer.trainable = not layer.trainable
GroupsFlip ==
    /\ drv.driver = "train.py" /\ drv.pc = "flip"
    /\ drv' =
         IF drv.next > Len(drv.bijectors)
         THEN [drv EXCEPT !.pc = "for", !.next = 0]
         ELSE [drv EXCEPT
                 !.bijectors[drv.next].trainable =
                     [l \in 1 .. NetLayers |-> ~drv.bijectors[drv.next].trainable[l]],
                 !.next = @ + 1]
    /\ UNCHANGED intVars

\* KeyboardInterrupt between two statements of the loop body
GroupsInterrupt ==
    /\ drv.driver = "train.py" /\ drv.pc \in {"train", "if", "flip"}
    /\ drv' = [drv EXCEPT !.pc = "post", !.interrupted = TRUE]
    /\ UNCHANGED intVars

\* line 198: print(... .format(epoch, loss, integral, error)) after the try
\* block
GroupsPostPrint ==
    /\ drv.driver = "train.py" /\ drv.pc = "post"
    /\ drv' = IF ({"epoch"} \cup StepLocals) \subseteq drv.bound
              THEN [drv EXCEPT !.pc = "returned"]
              ELSE [drv EXCEPT !.pc = "raised",
                               !.raised = "UnboundLocalError"]
    /\ UNCHANGED intVars

InitGroups ==
    /\ \E func_ \in TargetTables : IntegratorInit(func_, {})
    /\ \E nparts \in 2 .. MaxParts, epochs \in 0 .. MaxEpochs :
         \E printout \in PrintoutFlags :
           drv = GroupsStart(nparts, epochs, printout)
    /\ SplineIdle /\ OtherIdle /\ FactoryIdle /\ MasksIdle /\ EwmaIdle
    /\ SessionIdle /\ SherpaIdle

NextGroups ==
    \/ GroupsFor /\ UNCHANGED restOfDriver
    \/ \E samples \in Batches(1), qv \in ProbTables :
         GroupsTrain(1, samples, qv) /\ UNCHANGED restOfDriver
    \/ GroupsIfPrintout /\ UNCHANGED restOfDriver
    \/ GroupsFlip /\ UNCHANGED restOfDriver
    \/ GroupsInterrupt /\ UNCHANGED restOfDriver
    \/ GroupsPostPrint /\ UNCHANGED restOfDriver

SpecGroups == InitGroups /\ [][NextGroups]_vars

\* every layer of every bijector of the kind has the flag t
GroupIs(bijectors, kind, t) ==
    \A k \in 1 .. Len(bijectors) :
        bijectors[k].kind = kind =>
            \A l \in 1 .. NetLayers : bijectors[k].trainable[l] = t

\* the channel layers are frozen and the phase-space layers trainable
PhaseSpaceTrains(bijectors) ==
    /\ GroupIs(bijectors, "PiecewiseLinear", FALSE)
    /\ GroupIs(bijectors, "PiecewiseRationalQuadratic", TRUE)

\* the channel layers are trainable and the phase-space layers frozen
ChannelsTrain(bijectors) ==
    /\ GroupIs(bijectors, "PiecewiseLinear", TRUE)
    /\ GroupIs(bijectors, "PiecewiseRationalQuadratic", FALSE)

\* C26: at every train_one_step call of main exactly one of the two groups
\* is trainable, the channel layers or the phase-space layers, all layers of
\* a group alike; and the roles differ between two successive calls exactly
\* when the epoch of the first is a multiple of printout.
C26_AlternatingGroups ==
    drv.driver = "train.py" =>
        /\ \A i \in 1 .. Len(drv.calls) :
              /\ PhaseSpaceTrains(drv.calls[i].bijectors)
                    \/ ChannelsTrain(drv.calls[i].bijectors)
              /\ ~(PhaseSpaceTrains(drv.calls[i].bijectors)
                     /\ ChannelsTrain(drv.calls[i].bijectors))
        /\ \A i \in 1 .. (Len(drv.calls) - 1) :
              (drv.calls[i].bijectors # drv.calls[i + 1].bijectors)
                 <=> (drv.calls[i].epoch % drv.printout = 0)

\* two successive steps under one role after a step under the other:
\* printout is 2 and the roles were swapped after epoch 0 only
C26_SwapThenKeep ==
    /\ drv.driver = "train.py" /\ Len(drv.calls) >= 2
    /\ \E i \in 1 .. (Len(drv.calls) - 1) :
          /\ drv.calls[i].epoch % drv.printout # 0
          /\ ChannelsTrain(drv.calls[i].bijectors)
          /\ ChannelsTrain(drv.calls[i + 1].bijectors)

---------------------------------------------------------------------------
(* integration/sherpa2.py: class eetojjj. Momenta are names; the phase-    *)
(* space weights of the channels module and the matrix element of Sherpa   *)
(* are inputs of the calls. All array operations are elementwise, and the  *)
(* model follows one element of the batch.                                 *)

\* largest value of self.index, the number of GeneratePointTT calls
MaxPoints == 1

\* the floor of the weights and of the returned values, 1e-7
WeightFloor == <<1, 10000000>>

\* stands for the largest finite double, which np.nan_to_num puts in the
\* place of +Inf: above every finite value of the model
DblMax == <<100, 1>>

\* stands for hbarc2 / ecms**2 / 2.0, a positive finite factor
Flux == Int2V(2)

\* np.nan_to_num: 0 for NaN, the largest finite double for +Inf, the most
\* negative one for -Inf
NanToNum(v) ==
    IF IsNaN(v) THEN Zero
    ELSE IF v = PInf THEN DblMax
    ELSE IF v = NInf THEN VNeg(DblMax)
    ELSE v

\* mutant: no floor on the value returned
NpMaximumFirst(a, b) == a

\* np.maximum(a, b): NaN when one of the two is
NpMaximum(a, b) ==
    IF IsNaN(a) \/ IsNaN(b) THEN NaN ELSE IF VLess(a, b) THEN b ELSE a

\* np.reciprocal
NpReciprocal(v) == VDiv(One, v)

\* the indices of self.channels and self.weights
ChannelIndices == 0 .. 11

\* the four momenta a base channel generates, by name
BaseOutput(base) == [k \in 1 .. 4 |-> <<base, k>>]

\* `a, b, c, d = self.ChannelX(...); return p1, p2, p3, p4` with the targets
\* a..d given by their indices: p_i is the output assigned to target i
Unpacked(targets, out) ==
    [i \in 1 .. 4 |-> out[CHOOSE k \in 1 .. 4 : targets[k] = i]]

\* self.Weightn(pa, pb, p_a, p_b, p_c, p_d) with the arguments given by their
\* indices
Passed(args, p) == [k \in 1 .. 4 |-> p[args[k]]]

\* ChannelA1 .. ChannelB4: the base channel and the targets of its outputs
ChannelMethods ==
    [A1 |-> [base |-> "A", targets |-> <<1, 2, 3, 4>>],
     A2 |-> [base |-> "A", targets |-> <<1, 2, 4, 3>>],
     A3 |-> [base |-> "A", targets |-> <<2, 1, 3, 4>>],
     A4 |-> [base |-> "A", targets |-> <<2, 1, 4, 3>>],
     C1 |-> [base |-> "C", targets |-> <<1, 2, 3, 4>>],
     C2 |-> [base |-> "C", targets |-> <<1, 2, 4, 3>>],
     C3 |-> [base |-> "C", targets |-> <<2, 1, 3, 4>>],
     C4 |-> [base |-> "C", targets |-> <<2, 1, 4, 3>>],
     B1 |-> [base |-> "B", targets |-> <<1, 2, 3, 4>>],
     B2 |-> [base |-> "B", targets |-> <<2, 1, 3, 4>>],
     B3 |-> [base |-> "B", targets |-> <<1, 2, 4, 3>>],
     B4 |-> [base |-> "B", targets |-> <<2, 1, 4, 3>>]]

\* WeightA1 .. WeightC4: the base weight (Weight1 for A, Weight2 for B,
\* Weight3 for C) and the order of the momenta passed to it
WeightMethods ==
    [A1 |-> [base |-> "A", args |-> <<1, 2, 3, 4>>],
     A2 |-> [base |-> "A", args |-> <<1, 2, 4, 3>>],
     A3 |-> [base |-> "A", args |-> <<2, 1, 3, 4>>],
     A4 |-> [base |-> "A", args |-> <<2, 1, 4, 3>>],
     B1 |-> [base |-> "B", args |-> <<1, 2, 3, 4>>],
     B2 |-> [base |-> "B", args |-> <<1, 2, 4, 3>>],
     B3 |-> [base |-> "B", args |-> <<2, 1, 3, 4>>],
     B4 |-> [base |-> "B", args |-> <<2, 1, 4, 3>>],
     C1 |-> [base |-> "C", args |-> <<1, 2, 3, 4>>],
     C2 |-> [base |-> "C", args |-> <<1, 2, 4, 3>>],
     C3 |-> [base |-> "C", args |-> <<2, 1, 3, 4>>],
     C4 |-> [base |-> "C", args |-> <<2, 1, 4, 3>>]]

\* the order of the methods in self.channels and self.weights
MethodOrder ==
    <<"A1", "A2", "A3", "A4", "C1", "C2", "C3", "C4", "B1", "B2", "B3", "B4">>

\* eetojjj.__init__: self.channels, self.weights, self.index
EetojjjInit ==
    [op |-> "__init__",
     channels |-> [i \in ChannelIndices |-> ChannelMethods[MethodOrder[i + 1]]],
     weights |-> [i \in ChannelIndices |-> WeightMethods[MethodOrder[i + 1]]],
     index |-> 0]

\* Weight1, Weight2, Weight3 on four momenta in the order given: a function
\* of the ordered momenta, kept as a term
BaseWeight(base, p) == [weight |-> base, on |-> p]

\* self.channels[i](rans, pa, pb)
CallChannel(i) ==
    Unpacked(eetojjj.channels[i].targets, BaseOutput(eetojjj.channels[i].base))

\* self.weights[i](pa, pb, p1, p2, p3, p4)
CallWeight(i, p) ==
    BaseWeight(eetojjj.weights[i].base, Passed(eetojjj.weights[i].args, p))

\* self.weights[i] evaluated on the momenta of self.channels[i]
WeightOfChannel(i) ==
    /\ eetojjj.op # "none"
    /\ eetojjj' = [op |-> "weight_of_channel", channels |-> eetojjj.channels,
                   weights |-> eetojjj.weights, index |-> eetojjj.index,
                   i |-> i, momenta |-> CallChannel(i),
                   result |-> CallWeight(i, CallChannel(i))]

\* the matrix elements Sherpa returns for a point
MatrixElements == {NaN, PInf, NInf, Zero, VNeg(One), <<1, 10>>, One}

\* the products of propagator and decay weights, before any floor
RawWeights == {NaN, PInf, Zero, <<1, 2>>, One}

\* the twelve raw weights of a point: one value for all but the first of them
RawWeightTables ==
    { [k \in 1 .. 12 |-> IF k = 1 THEN v ELSE w] :
         v \in RawWeights, w \in RawWeights }

\* the record of a call that generated a point
PointCall(op, index, lome, wsum, ret) ==
    [op |-> op, channels |-> eetojjj.channels, weights |-> eetojjj.weights,
     index |-> index, lome |-> lome, wsum |-> wsum,
     dxs |-> VMul(VMul(lome, wsum), Flux), result |-> ret]

\* GeneratePointIso(rans): return np.nan_to_num(dxs)
GeneratePointIso(lome, raw) ==
    /\ eetojjj.op # "none"
    /\ eetojjj' = PointCall("GeneratePointIso", eetojjj.index, lome, raw,
                            NanToNum(VMul(VMul(lome, raw), Flux)))

\* GeneratePointTT(rans): wsum = WeightTT(...), floored;
\* self.index += 1; return np.maximum(np.nan_to_num(dxs), 1e-7)
GeneratePointTT(lome, raw) ==
    /\ eetojjj.op # "none" /\ eetojjj.index < MaxPoints
    /\ eetojjj' =
         PointCall("GeneratePointTT", eetojjj.index + 1, lome,
                   NpMaximum(raw, WeightFloor),
                   NpMaximum(NanToNum(VMul(VMul(lome,
                                 NpMaximum(raw, WeightFloor)), Flux)),
                             WeightFloor))

\* wsum of GeneratePoint: the twelve floored weights, then
\* np.reciprocal(np.mean(np.reciprocal(wsum), axis=0))
HarmonicMean(raws) ==
    NpReciprocal(ReduceMean([k \in 1 .. 12 |->
                    NpReciprocal(NpMaximum(raws[k], WeightFloor))]))

\* GeneratePoint(rans, channel): return np.maximum(np.nan_to_num(dxs), 1e-7)
GeneratePoint(lome, raws) ==
    /\ eetojjj.op # "none"
    /\ LET wsum == HarmonicMean(raws)
       IN  eetojjj' =
             PointCall("GeneratePoint", eetojjj.index, lome, wsum,
                       NpMaximum(NanToNum(VMul(VMul(lome, wsum), Flux)),
                                 WeightFloor))

InitSherpa ==
    /\ eetojjj = EetojjjInit
    /\ IntegratorInit([x \in Pts |-> One], {})
    /\ SplineIdle /\ DriverIdle /\ OtherIdle /\ FactoryIdle /\ MasksIdle
    /\ EwmaIdle /\ SessionIdle

restOfSherpa ==
    <<intVars, splVars, drv, other, factory, masks, ewma_call, session>>

NextSherpa ==
    \/ \E i \in ChannelIndices : WeightOfChannel(i) /\ UNCHANGED restOfSherpa
    \/ \E lome \in MatrixElements, raw \in RawWeights :
         GeneratePointIso(lome, raw) /\ UNCHANGED restOfSherpa
    \/ \E lome \in MatrixElements, raw \in RawWeights :
         GeneratePointTT(lome, raw) /\ UNCHANGED restOfSherpa
    \/ \E lome \in MatrixElements, raws \in RawWeightTables :
         GeneratePoint(lome, raws) /\ UNCHANGED restOfSherpa

SpecSherpa == InitSherpa /\ [][NextSherpa]_vars

\* the calls that are target functions
PointOps == {"GeneratePoint", "GeneratePointTT", "GeneratePointIso"}

\* C25: every value returned by GeneratePoint, GeneratePointTT and
\* GeneratePointIso is finite and at least 1e-7, and where the intermediate
\* result was not finite the value returned is the floor, the non-finite
\* value having been replaced by 0.
C25_SanitisedTargets ==
    eetojjj.op \in PointOps =>
        /\ IsFinite(eetojjj.result)
        /\ VLeq(WeightFloor, eetojjj.result)
        /\ ~IsFinite(eetojjj.dxs) => eetojjj.result = WeightFloor

\* the part of C25 that the code keeps: GeneratePoint and GeneratePointTT
\* return finite values that are at least 1e-7
C25_FlooredTargets ==
    eetojjj.op \in {"GeneratePoint", "GeneratePointTT"} =>
        /\ IsFinite(eetojjj.result)
        /\ VLeq(WeightFloor, eetojjj.result)

\* C29: for every index i, weights[i] is built on the base weight of the
\* topology of channels[i] and passes the momenta in the order that undoes
\* the permutation of channels[i], so that weights[i] on the momenta of
\* channels[i] is the base weight on the momenta of the base channel.
C29_ChannelWeightPairing ==
    eetojjj.op = "weight_of_channel" =>
        /\ eetojjj.weights[eetojjj.i].base = eetojjj.channels[eetojjj.i].base
        /\ eetojjj.weights[eetojjj.i].args
              = eetojjj.channels[eetojjj.i].targets
        /\ eetojjj.result
              = BaseWeight(eetojjj.channels[eetojjj.i].base,
                           BaseOutput(eetojjj.channels[eetojjj.i].base))

\* the indices at which the pairing of C29 holds
C29_PairingOfAandC ==
    (eetojjj.op = "weight_of_channel" /\ eetojjj.i \notin {9, 10}) =>
        eetojjj.result = BaseWeight(eetojjj.channels[eetojjj.i].base,
                                    BaseOutput(eetojjj.channels[eetojjj.i].base))

=============================================================================
